---- MODULE Spec2Model ----
(***************************************************************************)
(* Payroll tax calculation engine of payroll-florida-app                   *)
(* (app/services/payroll.py) and the monthly-payroll ledger that feeds it  *)
(* year-to-date accumulators (app/main.py).                                *)
(*                                                                         *)
(* Arithmetic.  The code computes in binary floating point on dollar       *)
(* amounts.  The model computes exactly: every money input is a whole      *)
(* number of cents, every rate is a whole number of 1/RateDen, and an      *)
(* unrounded amount is a pair (numerator, denominator) in cents, so that   *)
(* half-cent ties are exact.  round2 keeps the code's 1e-9 dollar nudge    *)
(* (1/EpsDen of a cent) and Python's round-half-even.                      *)
(***************************************************************************)
EXTENDS Integers, Sequences, FiniteSets, TLC

VARIABLES
    tax_files,  \* the tax-table files: year -> the files of data/tax/<year>/
    call,       \* arguments of the call under study
    locals,     \* calculate_monthly_payroll's locals at line 161 (unrounded amounts)
    result,     \* its return value (rounded items + calculation_trace steps)
    pc,         \* position of the call: "call", then where it ended
    raised,     \* the exception it raised ("": none)
    files_read, \* the tax-table files it opened, in order
    validation, \* the ValidationResult of the validator call under study
    history,    \* the calls made so far, each with the files it saw and its result
    fit_in,     \* arguments of the _annual_fit_from_brackets calls under study
    fit_out,    \* their return values
    payrolls,   \* the monthly_payrolls table
    in_order,   \* history: every save so far was for a new, later month
    employees   \* the ids of the rows of the employees table

vars ==
    <<tax_files, call, locals, result, pc, raised, files_read, validation, history,
      fit_in, fit_out, payrolls, in_order, employees>>

Max(a, b) == IF a >= b THEN a ELSE b
Min(a, b) == IF a <= b THEN a ELSE b

----------------------------------------------------------------------------
(* Scales *)

\* rates are whole multiples of 1/RateDen (0.0145 = 145/10000)
RateDen == 100 * 100

\* 1e-9 dollars = 1/EpsDen cents
EpsDen == 10000000

PERIODS_PER_YEAR ==
    [daily |-> 260, weekly |-> 52, biweekly |-> 26, semimonthly |-> 24, monthly |-> 12]

PayFrequencies == DOMAIN PERIODS_PER_YEAR

FILING_STATUS_KEYS ==
    {"single_or_married_filing_separately", "married_filing_jointly", "head_of_household"}

----------------------------------------------------------------------------
(* round2(value) = round(value + 1e-9, 2), value = n/d cents, d > 0.       *)
(* Python's round is round-half-to-even on the exact value it is given.    *)

\* sign of (n/d + 1/EpsDen) - (floor(n/d) + 1/2), without forming n * EpsDen
NudgedHalfCmp(n, d) ==
    LET r == n % d
        x == d - 2 * r
    IN  IF x <= 0 THEN 1
        ELSE IF x <= (2 * d - 1) \div EpsDen THEN 1
        ELSE IF (2 * d) % EpsDen = 0 /\ x = (2 * d) \div EpsDen THEN 0
        ELSE -1

\* plain round(value, 2): half-to-even, no nudge
RoundHalfEven(n, d) ==
    LET q == n \div d
        r == n % d
    IN  IF 2 * r > d THEN q + 1
        ELSE IF 2 * r < d THEN q
        ELSE IF q % 2 = 0 THEN q ELSE q + 1

round2(n, d) ==
    LET q == n \div d
        c == NudgedHalfCmp(n, d)
    IN  IF c > 0 THEN q + 1
        ELSE IF c < 0 THEN q
        ELSE IF q % 2 = 0 THEN q ELSE q + 1

----------------------------------------------------------------------------
(* Tax tables, data/tax/<year>/.  Amounts in cents, rates in 1/RateDen.    *)

\* the years whose directory data/tax/<year>/ is installed
TaxYears == {2025, 2026}

\* the numbers of rates.json as published for one year
Rates(year) ==
    [social_security |-> [employee_rate |-> 620, employer_rate |-> 620,
                          wage_base |-> IF year = 2025 THEN 600 ELSE 630],
     medicare |-> [employee_rate |-> 145, employer_rate |-> 145,
                   additional_employee_rate |-> 90,
                   additional_threshold |->
                       [single_or_married_filing_separately |-> 400,
                        married_filing_jointly |-> 500,
                        head_of_household |-> 400]],
     futa |-> [employer_rate |-> 60, wage_base |-> 350],
     suta |-> [wage_base |-> 350]]

Bracket(up_to, rate) == [bounded |-> TRUE, up_to |-> up_to, rate |-> rate]
LastBracket(rate) == [bounded |-> FALSE, up_to |-> 0, rate |-> rate]

\* the numbers of fit/<frequency>/percentage_method.json as published for one
\* year: a table per filing status.  The standard deductions are annual and
\* the same in the five files of a year; the rates tell the files apart.
FitFile(year, frequency) ==
    LET shift == IF year = 2025 THEN 0 ELSE 30
        r == IF frequency = "monthly" THEN 0 ELSE 100
    IN  [single_or_married_filing_separately |->
             [standard_deduction |-> 600 + shift,
              brackets |-> <<Bracket(600, 1000 + r), Bracket(2400, 1200), LastBracket(2200)>>],
         married_filing_jointly |->
             [standard_deduction |-> 1200 + shift,
              brackets |-> <<Bracket(1200, 1000 + r), Bracket(4800, 1200), LastBracket(2200)>>],
         head_of_household |->
             [standard_deduction |-> 900 + shift,
              brackets |-> <<Bracket(900, 1000 + r), Bracket(3000, 1200), LastBracket(2400)>>]]

RECURSIVE Thresholds(_, _)
\* tax_validation.py 134: the up_to values of the brackets that have one
Thresholds(brackets, i) ==
    IF i > Len(brackets) THEN <<>>
    ELSE (IF brackets[i].bounded THEN <<brackets[i].up_to>> ELSE <<>>)
             \o Thresholds(brackets, i + 1)

----------------------------------------------------------------------------
(* The files of one year directory.  A file is "missing", "invalid" (not   *)
(* JSON), an "array" (JSON, but [] instead of an object) or an "object";   *)
(* the other fields describe the object.  origin: the year whose published *)
(* numbers the file holds (a file copied from another year's directory     *)
(* keeps that year's numbers).  None stands for an absent value.           *)

None == 0 - 1

REQUIRED_KEYS == {"social_security", "medicare", "futa", "suta"}

\* metadata.json: has_fields: source, version, last_updated and notes are there
MetadataJson(year) ==
    [state |-> "object", tax_year |-> year, has_fields |-> TRUE,
     method |-> "percentage", notes_percentage |-> TRUE, origin |-> year]

\* rates.json: the top-level keys it has, and the entries below them it is
\* without (<<"social_security", "wage_base">>, or <<"additional_threshold",
\* filing status>> for an entry of medicare.additional_threshold)
RatesJson(year) ==
    [state |-> "object", keys |-> REQUIRED_KEYS, without |-> {}, origin |-> year]

\* validation.json: the expected standard deduction (None: not recorded) and
\* the expected first bracket thresholds of each filing status
ValidationJson(year) ==
    [state |-> "object", tax_year |-> year,
     standard_deduction |->
         [s \in FILING_STATUS_KEYS |-> FitFile(year, "monthly")[s].standard_deduction],
     bracket_thresholds |->
         [s \in FILING_STATUS_KEYS |-> Thresholds(FitFile(year, "monthly")[s].brackets, 1)]]

\* percentage_method.json: the filing statuses it has a table for, and those
\* whose table has a standard_deduction, has brackets
FitJson(year) ==
    [state |-> "object", origin |-> year, statuses |-> FILING_STATUS_KEYS,
     with_standard_deduction |-> FILING_STATUS_KEYS,
     with_brackets |-> FILING_STATUS_KEYS]

InstalledDir(year) ==
    [metadata |-> MetadataJson(year), rates |-> RatesJson(year),
     validation |-> ValidationJson(year),
     fit |-> [f \in PayFrequencies |-> FitJson(year)]]

MissingFile(file) == [file EXCEPT !.state = "missing"]

\* a directory that does not exist
AbsentDir ==
    [metadata |-> MissingFile(MetadataJson(0)), rates |-> MissingFile(RatesJson(0)),
     validation |-> MissingFile(ValidationJson(2025)),
     fit |-> [f \in PayFrequencies |-> MissingFile(FitJson(0))]]

\* data/tax as installed
InstalledFiles == [year \in TaxYears |-> InstalledDir(year)]

\* the newest installed directory stands in for one that is not there
tax_year_dir_fallback(year) ==
    IF year \in DOMAIN tax_files /\ tax_files[year] # AbsentDir THEN tax_files[year]
    ELSE tax_files[2026]

\* payroll.py 41-42
tax_year_dir(year) == IF year \in DOMAIN tax_files THEN tax_files[year] ELSE AbsentDir

\* ydir / "fit" / pay_frequency / "percentage_method.json"
fit_path(year, pay_frequency) ==
    IF pay_frequency \in PayFrequencies THEN tax_year_dir(year).fit[pay_frequency]
    ELSE MissingFile(FitJson(0))

\* lines 45-47
tax_year_available(year) ==
    /\ tax_year_dir(year).rates.state # "missing"
    /\ tax_year_dir(year).metadata.state # "missing"

\* lines 33-38: the exception _read_json raises on a file ("": none)
read_json_error(file) ==
    CASE file.state = "missing" -> "TaxConfigError"
      [] file.state = "invalid" -> "JSONDecodeError"
      [] OTHER -> ""

\* lines 60-69: what the structural checks miss in the two files
MissingKeys(rates) == IF rates.state = "array" THEN REQUIRED_KEYS ELSE REQUIRED_KEYS \ rates.keys
BadStatuses(fit) ==
    IF fit.state = "array" THEN FILING_STATUS_KEYS
    ELSE {s \in FILING_STATUS_KEYS :
              \/ s \notin fit.statuses
              \/ s \notin fit.with_standard_deduction
              \/ s \notin fit.with_brackets}

\* lines 50-69: the exception load_tax_year_data raises ("": it returns)
load_error(year, pay_frequency) ==
    LET ydir == tax_year_dir(year)
        fit == fit_path(year, pay_frequency)
    IN  IF read_json_error(ydir.rates) # "" THEN read_json_error(ydir.rates)
        ELSE IF read_json_error(ydir.metadata) # "" THEN read_json_error(ydir.metadata)
        ELSE IF read_json_error(fit) # "" THEN read_json_error(fit)
        ELSE IF MissingKeys(ydir.rates) # {} THEN "TaxConfigError"
        ELSE IF BadStatuses(fit) # {} THEN "TaxConfigError"
        ELSE ""

FileName(year, file) == [year |-> year, file |-> file]

\* lines 56-58: the files load_tax_year_data opens, in order
load_reads(year, pay_frequency) ==
    LET ydir == tax_year_dir(year)
    IN  <<FileName(year, "rates.json")>>
            \o (IF read_json_error(ydir.rates) # "" THEN <<>>
                ELSE <<FileName(year, "metadata.json")>>
                         \o (IF read_json_error(ydir.metadata) # "" THEN <<>>
                             ELSE <<FileName(year, pay_frequency)>>))

\* lines 71-82: the value load_tax_year_data returns when it raises nothing
load_tax_year_data(year, pay_frequency) ==
    LET ydir == tax_year_dir(year)
    IN  [year |-> year,
         metadata |-> ydir.metadata,
         rates |-> Rates(ydir.rates.origin),
         fit |-> FitFile(fit_path(year, pay_frequency).origin, pay_frequency),
         files |-> <<FileName(year, "metadata.json"), FileName(year, "rates.json"),
                     FileName(year, pay_frequency)>>]

----------------------------------------------------------------------------
(* The validator, tax_validation.py.  A ValidationResult is                *)
(* [ok, errors, warnings]; the model adds raised: the exception that left  *)
(* the validator instead of a result ("": none).  An error or warning is   *)
(* [message, about]: the fixed part of the text and what it names.         *)

Message(message, about) == [message |-> message, about |-> about]

\* lines 11-16
ValidationResult == [raised |-> "", ok |-> TRUE, errors |-> <<>>, warnings |-> <<>>]

\* lines 18-20
add_error(vr, message) == [vr EXCEPT !.ok = FALSE, !.errors = @ \o <<message>>]

\* lines 22-23
add_warning(vr, message) == [vr EXCEPT !.warnings = @ \o <<message>>]

RECURSIVE add_errors(_, _, _)
add_errors(vr, messages, i) ==
    IF i > Len(messages) THEN vr
    ELSE add_errors(add_error(vr, messages[i]), messages, i + 1)

\* lines 37-45: the error _read_json records for a file, if any
validation_read_json(vr, file, label) ==
    CASE file.state = "missing" ->
             add_error(vr, Message("Missing required file for tax year validation", label))
      [] file.state = "invalid" -> add_error(vr, Message("Invalid JSON", label))
      [] OTHER -> vr

\* _read_json returned None
IsNone(file) == file.state \in {"missing", "invalid"}

\* lines 61-63
CheckFields(vr, metadata) ==
    IF metadata.has_fields THEN vr
    ELSE add_error(vr, Message("metadata.json is missing required fields", "metadata.json"))

\* lines 65-69
CheckTaxYear(vr, metadata, year) ==
    IF metadata.tax_year = None
    THEN [add_warning(vr, Message("metadata.json is missing required field 'tax_year'",
                                  "metadata.json"))
              EXCEPT !.ok = FALSE]
    ELSE IF metadata.tax_year # year
    THEN add_error(vr, Message("metadata.json tax_year mismatch", "metadata.json"))
    ELSE vr

\* lines 71-76
CheckMethod(vr, metadata) ==
    IF metadata.method \notin {"percentage", "wage_bracket"}
    THEN add_error(vr, Message("metadata.json method must be one of: percentage, wage_bracket",
                               "metadata.json"))
    ELSE IF metadata.has_fields /\ metadata.notes_percentage /\ metadata.method # "percentage"
    THEN add_error(vr, Message("metadata.json method must be 'percentage'", "metadata.json"))
    ELSE vr

\* lines 59-76, metadata is an object
CheckMetadata(vr, metadata, year) ==
    CheckMethod(CheckTaxYear(CheckFields(vr, metadata), metadata, year), metadata)

\* lines 59-71, metadata is [], which has no fields and no get()
CheckMetadataArray(vr) ==
    [add_warning(add_error(vr, Message("metadata.json is missing required fields",
                                       "metadata.json")),
                 Message("metadata.json is missing required field 'tax_year'", "metadata.json"))
         EXCEPT !.ok = FALSE, !.raised = "AttributeError"]

FrequencyOrder == <<"daily", "weekly", "biweekly", "semimonthly", "monthly">>

RECURSIVE MissingFitFiles(_, _)
\* lines 82-87
MissingFitFiles(ydir, i) ==
    IF i > Len(FrequencyOrder) THEN <<>>
    ELSE (IF ydir.fit[FrequencyOrder[i]].state = "missing"
          THEN <<Message("Missing FIT percentage tables", FrequencyOrder[i])>>
          ELSE <<>>) \o MissingFitFiles(ydir, i + 1)

\* lines 55-57: the three files are read
ReadYearFiles(ydir) ==
    validation_read_json(
        validation_read_json(
            validation_read_json(ValidationResult, ydir.metadata, "metadata.json"),
            ydir.rates, "rates.json"),
        ydir.validation, "validation.json")

\* lines 59-76
MetadataChecked(vr, ydir, year) ==
    IF IsNone(ydir.metadata) THEN vr
    ELSE IF ydir.metadata.state = "array" THEN CheckMetadataArray(vr)
    ELSE CheckMetadata(vr, ydir.metadata, year)

\* lines 78-80; validation is [], which has no get()
ValidationChecked(vr, ydir, year) ==
    IF vr.raised # "" \/ IsNone(ydir.validation) THEN vr
    ELSE IF ydir.validation.state = "array" THEN [vr EXCEPT !.raised = "AttributeError"]
    ELSE IF ydir.validation.tax_year # year
    THEN add_error(vr, Message("validation.json tax_year mismatch", "validation.json"))
    ELSE vr

\* lines 82-87
FitFilesChecked(vr, ydir) ==
    IF vr.raised # "" THEN vr ELSE add_errors(vr, MissingFitFiles(ydir, 1), 1)

\* lines 48-95
validate_tax_year_data(year) ==
    FitFilesChecked(
        ValidationChecked(
            MetadataChecked(ReadYearFiles(tax_year_dir(year)), tax_year_dir(year), year),
            tax_year_dir(year), year),
        tax_year_dir(year))

StatusOrder ==
    <<"single_or_married_filing_separately", "married_filing_jointly", "head_of_household">>

RECURSIVE ThresholdErrors(_, _, _, _, _)
\* lines 135-142
ThresholdErrors(expected_thresholds, actual_thresholds, idx, checks, status) ==
    IF idx > checks THEN <<>>
    ELSE (IF expected_thresholds[idx] # actual_thresholds[idx]
          THEN <<Message("Tax tables appear to be for a different year (bracket threshold)",
                         status)>>
          ELSE <<>>)
             \o ThresholdErrors(expected_thresholds, actual_thresholds, idx + 1, checks, status)

\* lines 118-142: the errors of one filing status
StatusErrors(fit, expected, pay_frequency, status) ==
    IF fit.state = "array" \/ status \notin fit.statuses
    THEN <<Message("Missing FIT table for filing status", status)>>
    ELSE LET status_table == FitFile(fit.origin, pay_frequency)[status]
             expected_status_sd == expected.standard_deduction[status]
             actual_sd == IF status \in fit.with_standard_deduction
                          THEN status_table.standard_deduction ELSE None
             expected_thresholds == expected.bracket_thresholds[status]
             actual_thresholds == IF status \in fit.with_brackets
                                  THEN Thresholds(status_table.brackets, 1) ELSE <<>>
             checks == Min(3, Min(Len(expected_thresholds), Len(actual_thresholds)))
         IN  (IF expected_status_sd # None /\ actual_sd # expected_status_sd
              THEN <<Message("Tax tables appear to be for a different year (standard deduction)",
                             status)>>
              ELSE <<>>)
                 \o ThresholdErrors(expected_thresholds, actual_thresholds, 1, checks, status)

\* lines 117-144: the three filing statuses, in order
AllStatusErrors(fit, expected, pay_frequency) ==
    StatusErrors(fit, expected, pay_frequency, StatusOrder[1])
        \o StatusErrors(fit, expected, pay_frequency, StatusOrder[2])
        \o StatusErrors(fit, expected, pay_frequency, StatusOrder[3])

\* lines 104-147; vr: the result of validate_tax_year_data
FitTablesChecked(vr, ydir, fit, pay_frequency) ==
    IF vr.raised # "" THEN vr
    ELSE IF pay_frequency \notin PayFrequencies
    THEN add_error(vr, Message("Unsupported pay frequency", pay_frequency))
    ELSE IF IsNone(fit) \/ IsNone(ydir.validation)
    THEN validation_read_json(validation_read_json(vr, fit, pay_frequency),
                              ydir.validation, "validation.json")
    ELSE add_errors(vr, AllStatusErrors(fit, ydir.validation, pay_frequency), 1)

\* lines 98-147
validate_fit_tables(year, pay_frequency) ==
    FitTablesChecked(validate_tax_year_data(year), tax_year_dir(year),
                     fit_path(year, pay_frequency), pay_frequency)

----------------------------------------------------------------------------
(* _annual_fit_from_brackets(taxable_income, brackets), payroll.py 85-102. *)
(* taxable_income in cents; the value returned is in 1/RateDen cents.      *)

RECURSIVE BracketWalk(_, _, _, _, _)
\* the state of the for loop before bracket i: (tax, lower, remaining)
BracketWalk(brackets, i, tax, lower, remaining) ==
    IF i > Len(brackets) THEN Max(0, tax)
    ELSE LET bracket == brackets[i]
             rate == bracket.rate
         IN  IF ~bracket.bounded
             THEN Max(0, tax + Max(0, remaining) * rate)
             ELSE LET upper == bracket.up_to
                      width == Max(0, upper - lower)
                      taxed == Min(Max(0, remaining), width)
                  IN  IF remaining - taxed <= 0
                      THEN Max(0, tax + taxed * rate)
                      ELSE BracketWalk(brackets, i + 1, tax + taxed * rate,
                                       upper, remaining - taxed)

RECURSIVE StaleLowerWalk(_, _, _, _)
\* the walk without line 99 (lower stays 0.0)
StaleLowerWalk(brackets, i, tax, remaining) ==
    IF i > Len(brackets) THEN Max(0, tax)
    ELSE LET bracket == brackets[i]
             taxed == Min(Max(0, remaining), Max(0, bracket.up_to))
         IN  IF ~bracket.bounded
             THEN Max(0, tax + Max(0, remaining) * bracket.rate)
             ELSE IF remaining - taxed <= 0
             THEN Max(0, tax + taxed * bracket.rate)
             ELSE StaleLowerWalk(brackets, i + 1, tax + taxed * bracket.rate,
                                 remaining - taxed)

annual_fit_stale_lower(taxable_income, brackets) ==
    StaleLowerWalk(brackets, 1, 0, taxable_income)

RECURSIVE BracketOf(_, _, _)
\* index of the bracket taxable_income falls in
BracketOf(brackets, i, taxable_income) ==
    IF i >= Len(brackets) \/ ~brackets[i].bounded \/ taxable_income < brackets[i].up_to
    THEN i
    ELSE BracketOf(brackets, i + 1, taxable_income)

\* the whole income at the rate of the bracket it falls in
annual_fit_flat_rate(taxable_income, brackets) ==
    Max(0, taxable_income) * brackets[BracketOf(brackets, 1, taxable_income)].rate

annual_fit_from_brackets(taxable_income, brackets) ==
    BracketWalk(brackets, 1, 0, 0, taxable_income)

----------------------------------------------------------------------------
(* calculate_monthly_payroll, payroll.py 105-223.                          *)
(* c: the arguments.  Locals are named as in the code; a local that holds  *)
(* a product with a rate is in 1/RateDen cents, federal, employee_taxes    *)
(* and net are in 1/(RateDen * periods_per_year) cents.                    *)

\* lines 118-121: the two checks made before any file is read
Unsupported(c) ==
    \/ c.employee.pay_frequency \notin PayFrequencies
    \/ c.employee.filing_status \notin FILING_STATUS_KEYS

\* the headroom without its floor at 0
WageBaseRemainingNoFloor(wage_base, ytd_wages) == wage_base - ytd_wages

\* lines 141, 152, 156
WageBaseRemaining(wage_base, ytd_wages) == Max(0, wage_base - ytd_wages)

\* the period's wages taxed whatever the headroom
CappedTaxableNoCap(wage_base, ytd_wages, taxable_wages) == taxable_wages

\* lines 142, 153, 157
CappedTaxable(wage_base, ytd_wages, taxable_wages) ==
    Min(WageBaseRemaining(wage_base, ytd_wages), taxable_wages)

\* the cumulative excess over the threshold, earlier periods' part included
AddlBaseCumulative(ytd_medicare_wages, taxable_wages, additional_threshold) ==
    Max(0, (ytd_medicare_wages + taxable_wages) - additional_threshold)

\* the period's own excess over the threshold, whatever was paid before
AddlBasePeriodOnly(ytd_medicare_wages, taxable_wages, additional_threshold) ==
    Max(0, taxable_wages - additional_threshold)

\* line 149
AddlBase(ytd_medicare_wages, taxable_wages, additional_threshold) ==
    Max(0, (ytd_medicare_wages + taxable_wages) - additional_threshold)
        - Max(0, ytd_medicare_wages - additional_threshold)

\* line 132
GrossPay(employee, bonus, reimbursements) ==
    Max(0, employee.monthly_salary + bonus + reimbursements)

\* every employee treated as paid monthly
PeriodsPerYearMonthly(pay_frequency) == PERIODS_PER_YEAR["monthly"]

\* line 131
PeriodsPerYear(pay_frequency) == PERIODS_PER_YEAR[pay_frequency]

\* line 138
AfterStep3(fit_annual_before_credits, w4_dependents_amount) ==
    Max(0, fit_annual_before_credits - w4_dependents_amount * RateDen)

\* lines 123-161
PayrollLocals(c) ==
    LET employee == c.employee
        pay_frequency == employee.pay_frequency
        tax_data == load_tax_year_data(c.year, pay_frequency)
        rates == tax_data.rates
        fit_cfg == tax_data.fit[employee.filing_status]
        ss_cfg == rates.social_security
        medicare_cfg == rates.medicare
        futa_cfg == rates.futa
        suta_wage_base == rates.suta.wage_base
        periods_per_year == PeriodsPerYear(pay_frequency)
        den == RateDen * periods_per_year
        gross == GrossPay(employee, c.bonus, c.reimbursements)
        taxable_wages == Max(0, gross - c.deductions)
        annualized == taxable_wages * periods_per_year
                          + employee.w4_other_income - employee.w4_deductions
        fit_taxable == Max(0, annualized - fit_cfg.standard_deduction)
        fit_annual_before_credits ==
            annual_fit_from_brackets(fit_taxable, fit_cfg.brackets)
        fit_annual_after_step3 ==
            AfterStep3(fit_annual_before_credits, employee.w4_dependents_amount)
        federal == fit_annual_after_step3 + employee.w4_extra_withholding * den
        ss_remaining == WageBaseRemaining(ss_cfg.wage_base, c.ytd_ss_wages)
        ss_taxable == CappedTaxable(ss_cfg.wage_base, c.ytd_ss_wages, taxable_wages)
        social_security_ee == ss_taxable * ss_cfg.employee_rate
        social_security_er == ss_taxable * ss_cfg.employer_rate
        medicare_ee == taxable_wages * medicare_cfg.employee_rate
        medicare_er == taxable_wages * medicare_cfg.employer_rate
        additional_threshold == medicare_cfg.additional_threshold[employee.filing_status]
        addl_base == AddlBase(c.ytd_medicare_wages, taxable_wages, additional_threshold)
        additional_medicare_ee ==
            Max(0, addl_base) * medicare_cfg.additional_employee_rate
        futa_remaining == WageBaseRemaining(futa_cfg.wage_base, c.ytd_futa_wages)
        futa_taxable == CappedTaxable(futa_cfg.wage_base, c.ytd_futa_wages, taxable_wages)
        futa_er == futa_taxable * futa_cfg.employer_rate
        suta_remaining == WageBaseRemaining(suta_wage_base, c.ytd_suta_wages)
        suta_taxable == CappedTaxable(suta_wage_base, c.ytd_suta_wages, taxable_wages)
        suta_er == suta_taxable * c.company_suta_rate_decimal
        employee_taxes ==
            federal + (social_security_ee + medicare_ee + additional_medicare_ee)
                          * periods_per_year
        net == gross * den - employee_taxes - c.deductions * den
    IN  [periods_per_year |-> periods_per_year,
         den |-> den,
         gross |-> gross,
         taxable_wages |-> taxable_wages,
         annualized |-> annualized,
         fit_taxable |-> fit_taxable,
         fit_annual_before_credits |-> fit_annual_before_credits,
         fit_annual_after_step3 |-> fit_annual_after_step3,
         federal |-> federal,
         ss_remaining |-> ss_remaining,
         ss_taxable |-> ss_taxable,
         social_security_ee |-> social_security_ee,
         social_security_er |-> social_security_er,
         medicare_ee |-> medicare_ee,
         medicare_er |-> medicare_er,
         addl_base |-> addl_base,
         additional_medicare_ee |-> additional_medicare_ee,
         futa_remaining |-> futa_remaining,
         futa_taxable |-> futa_taxable,
         futa_er |-> futa_er,
         suta_remaining |-> suta_remaining,
         suta_taxable |-> suta_taxable,
         suta_er |-> suta_er,
         employee_taxes |-> employee_taxes,
         net |-> net]

\* lines 165-166: metadata.get("source"), metadata.get("version")
MetadataGet(metadata) == IF metadata.has_fields THEN metadata.origin ELSE None

\* lines 163-209
CalculationTrace(c, l) ==
    [tax_year |-> c.year,
     source |-> MetadataGet(load_tax_year_data(c.year, c.employee.pay_frequency).metadata),
     version |-> MetadataGet(load_tax_year_data(c.year, c.employee.pay_frequency).metadata),
     files |-> load_tax_year_data(c.year, c.employee.pay_frequency).files,
     inputs |->
         [pay_frequency |-> c.employee.pay_frequency,
          periods_per_year |-> l.periods_per_year,
          gross_components |->
              [base_salary_amount |-> c.employee.monthly_salary,
               bonus |-> c.bonus,
               reimbursements |-> c.reimbursements],
          deductions |-> c.deductions,
          w4 |-> [filing_status |-> c.employee.filing_status,
                  dependents_amount |-> c.employee.w4_dependents_amount,
                  other_income |-> c.employee.w4_other_income,
                  deductions |-> c.employee.w4_deductions,
                  extra_withholding |-> c.employee.w4_extra_withholding],
          ytd |-> [ss_wages |-> c.ytd_ss_wages,
                   medicare_wages |-> c.ytd_medicare_wages,
                   futa_wages |-> c.ytd_futa_wages,
                   suta_wages |-> c.ytd_suta_wages]],
     steps |->
         [gross_pay |-> l.gross,
          taxable_wages |-> l.taxable_wages,
          fit_annualized_wages |-> l.annualized,
          fit_taxable_annual_wages |-> l.fit_taxable,
          fit_annual_tax_before_credits |-> l.fit_annual_before_credits,
          fit_annual_tax_after_step3_credit |-> l.fit_annual_after_step3,
          fit_period_withholding |-> l.federal,
          ss_taxable_wages |-> l.ss_taxable,
          medicare_taxable_wages |-> l.taxable_wages,
          additional_medicare_taxable_wages |-> l.addl_base,
          futa_taxable_wages |-> l.futa_taxable,
          suta_taxable_wages |-> l.suta_taxable,
          ss_wage_base_remaining |-> l.ss_remaining,
          futa_wage_base_remaining |-> l.futa_remaining,
          suta_wage_base_remaining |-> l.suta_remaining]]

\* lines 211-223
PayrollResult(c, l) ==
    [gross_pay |-> round2(l.gross, 1),
     federal_withholding |-> round2(l.federal, l.den),
     social_security_ee |-> round2(l.social_security_ee, RateDen),
     medicare_ee |-> round2(l.medicare_ee, RateDen),
     additional_medicare_ee |-> round2(l.additional_medicare_ee, RateDen),
     social_security_er |-> round2(l.social_security_er, RateDen),
     medicare_er |-> round2(l.medicare_er, RateDen),
     futa_er |-> round2(l.futa_er, RateDen),
     suta_er |-> round2(l.suta_er, RateDen),
     net_pay |-> round2(l.net, l.den),
     calculation_trace |-> CalculationTrace(c, l)]

\* lines 129-156: the entries of rates.json a call reads below its four
\* top-level keys
EntriesRead(filing_status) ==
    {<<"suta", "wage_base">>,
     <<"social_security", "wage_base">>, <<"social_security", "employee_rate">>,
     <<"social_security", "employer_rate">>,
     <<"medicare", "employee_rate">>, <<"medicare", "employer_rate">>,
     <<"additional_threshold", filing_status>>,
     <<"medicare", "additional_employee_rate">>,
     <<"futa", "wage_base">>, <<"futa", "employer_rate">>}

\* lines 129-156: a subscript on an entry rates.json is without
RatesKeyError(c) ==
    tax_year_dir(c.year).rates.without \cap EntriesRead(c.employee.filing_status) # {}

\* the tax tables loaded before the arguments are looked at
calc_error_load_first(c) ==
    IF load_error(c.year, c.employee.pay_frequency) # ""
    THEN load_error(c.year, c.employee.pay_frequency)
    ELSE IF Unsupported(c) THEN "TaxConfigError"
    ELSE IF RatesKeyError(c) THEN "KeyError"
    ELSE IF tax_year_dir(c.year).metadata.state = "array" THEN "AttributeError"
    ELSE ""

\* lines 117-166: the exception the call raises ("": it returns).  An
\* entry rates.json is without is subscripted at lines 129-156; a
\* metadata.json that holds [] is loaded, and has no get() at line 165.
calc_error(c) ==
    IF Unsupported(c) THEN "TaxConfigError"
    ELSE IF load_error(c.year, c.employee.pay_frequency) # ""
    THEN load_error(c.year, c.employee.pay_frequency)
    ELSE IF RatesKeyError(c) THEN "KeyError"
    ELSE IF tax_year_dir(c.year).metadata.state = "array" THEN "AttributeError"
    ELSE ""

\* the tax-table files the call opens, in order
calc_reads(c) ==
    IF Unsupported(c) THEN <<>> ELSE load_reads(c.year, c.employee.pay_frequency)

\* the calls that raise
Raises(c) == calc_error(c) # ""

calculate_monthly_payroll(c) == PayrollResult(c, PayrollLocals(c))

----------------------------------------------------------------------------
(* Calls of calculate_monthly_payroll that are studied one at a time.      *)
(* Money in cents.  calculate_monthly_payroll checks none of its amounts;   *)
(* the calls below pass it negative ones too (a negative bonus, a negative  *)
(* W-4 extra withholding).  Employees saved through upsert_employee         *)
(* (main.py 239-240) carry W-4 amounts and a salary >= 0: the ledger below  *)
(* uses only such employees.                                                *)

MaxSalarySteps == 2
MaxYtdSteps == 2

SalaryValues == {k * 125 : k \in 0..MaxSalarySteps}
BonusValues == {0 - 300, 0, 200}
ReimbursementValues == {0, 10}
DeductionValues == {0, 40, 500}
YtdValues == {k * 300 : k \in 0..MaxYtdSteps}
SutaRateValues == {270, 500}

NoW4 ==
    [w4_dependents_amount |-> 0, w4_other_income |-> 0,
     w4_deductions |-> 0, w4_extra_withholding |-> 0]

W4Values ==
    [w4_dependents_amount : {0, 100}, w4_other_income : {0, 300},
     w4_deductions : {0, 900}, w4_extra_withholding : {0 - 5, 0, 5}]

EmployeeOf(pay_frequency, filing_status, monthly_salary, w4) ==
    [pay_frequency |-> pay_frequency,
     filing_status |-> filing_status,
     monthly_salary |-> monthly_salary,
     w4_dependents_amount |-> w4.w4_dependents_amount,
     w4_other_income |-> w4.w4_other_income,
     w4_deductions |-> w4.w4_deductions,
     w4_extra_withholding |-> w4.w4_extra_withholding]

CallOf(employee, year, bonus, reimbursements, deductions, ytd, suta_rate) ==
    [employee |-> employee,
     year |-> year,
     bonus |-> bonus,
     reimbursements |-> reimbursements,
     deductions |-> deductions,
     ytd_ss_wages |-> ytd[1],
     ytd_medicare_wages |-> ytd[2],
     ytd_futa_wages |-> ytd[3],
     ytd_suta_wages |-> ytd[4],
     company_suta_rate_decimal |-> suta_rate]

\* every pay input and every YTD accumulator, for a monthly employee without
\* W-4 adjustments
WageBaseCalls(salaries, ytds) ==
    {CallOf(EmployeeOf("monthly", fs, sal, NoW4), y, b, r, d, ytd, sr) :
        fs \in FILING_STATUS_KEYS, sal \in salaries, y \in TaxYears,
        b \in BonusValues, r \in ReimbursementValues, d \in DeductionValues,
        ytd \in ytds \X ytds \X ytds \X ytds,
        sr \in SutaRateValues}

\* every pay input, pay frequency, filing status and W-4, at the start of a year
WithholdingCalls(salaries) ==
    {CallOf(EmployeeOf(pf, fs, sal, w4), y, b, r, d, <<0, 0, 0, 0>>, 270) :
        pf \in PayFrequencies, fs \in FILING_STATUS_KEYS, sal \in salaries,
        w4 \in W4Values, y \in TaxYears,
        b \in BonusValues, r \in ReimbursementValues, d \in DeductionValues}

\* calls the function refuses
RefusedCalls ==
    {CallOf(EmployeeOf(pf, fs, 125, NoW4), y, 0, 0, 0, <<0, 0, 0, 0>>, 270) :
        pf \in PayFrequencies \cup {"quarterly"},
        fs \in FILING_STATUS_KEYS \cup {"single"},
        y \in TaxYears \cup {2099}}

NoCall == [year |-> 0]
NoLocals == [den |-> 0]
NoResult == [gross_pay |-> 0]
NoFit == [a |-> 0, b |-> 0, brackets |-> <<>>]

LedgerIdle ==
    /\ payrolls = {}
    /\ in_order = TRUE
    /\ employees = {}

CalcIdle ==
    /\ call = NoCall
    /\ locals = NoLocals
    /\ result = NoResult
    /\ pc = "idle"
    /\ raised = ""
    /\ files_read = <<>>

ValidatorIdle == validation = ValidationResult

HistoryIdle == history = <<>>

FitIdle ==
    /\ fit_in = NoFit
    /\ fit_out = NoFit

InitCalc ==
    /\ tax_files = InstalledFiles
    /\ \/ call \in WageBaseCalls(SalaryValues, YtdValues)
       \/ call \in WithholdingCalls(SalaryValues)
       \/ call \in RefusedCalls
    /\ locals = NoLocals
    /\ result = NoResult
    /\ pc = "call"
    /\ raised = ""
    /\ files_read = <<>>
    /\ ValidatorIdle
    /\ HistoryIdle
    /\ FitIdle
    /\ LedgerIdle

\* lines 117-166: an exception, nothing is returned
CalcRaise ==
    /\ pc = "call"
    /\ Raises(call)
    /\ pc' = "raised"
    /\ raised' = calc_error(call)
    /\ files_read' = calc_reads(call)
    /\ UNCHANGED <<tax_files, call, locals, result, validation, history,
                   fit_in, fit_out, payrolls, in_order, employees>>

\* lines 123-223
CalcReturn ==
    /\ pc = "call"
    /\ ~Raises(call)
    /\ locals' = PayrollLocals(call)
    /\ result' = calculate_monthly_payroll(call)
    /\ pc' = "returned"
    /\ raised' = ""
    /\ files_read' = calc_reads(call)
    /\ UNCHANGED <<tax_files, call, validation, history, fit_in, fit_out, payrolls, in_order, employees>>

NextCalc == CalcRaise \/ CalcReturn

SpecCalc == InitCalc /\ [][NextCalc]_vars

----------------------------------------------------------------------------
(* The monthly-payroll ledger, main.py 290-378.  Companies and employees   *)
(* are fixed rows; a request names the current company, an employee, a     *)
(* year (0: none given), a month and an optional record_id (0: none).      *)

MaxMonth == 2
MaxRecords == 2

Companies == {1, 2}

Company(id) ==
    [id |-> id,
     default_tax_year |-> 2025,
     fl_suta_rate |-> IF id = 1 THEN 270 ELSE 500]

EmployeeIds == {1, 2}

Employee(id) ==
    IF id = 1
    THEN [company_id |-> 1] @@
         EmployeeOf("monthly", "single_or_married_filing_separately", 250, NoW4)
    ELSE [company_id |-> 2] @@
         EmployeeOf("weekly", "married_filing_jointly", 125,
                    [w4_dependents_amount |-> 100, w4_other_income |-> 300,
                     w4_deductions |-> 0, w4_extra_withholding |-> 5])

Months == 1..MaxMonth
RequestCompanies == {0} \cup Companies
RequestEmployees == EmployeeIds \cup {3}
RequestYears == {0, 2026, 2099}
RequestRecordIds == 0..MaxRecords
RequestBonus == {0}

\* main.py 321-322
trace_wages(record, key) == record.calculation_trace.steps[key]

RECURSIVE SumOf(_, _)
\* main.py 331-334: sum(_trace_wages(r, key) for r in records)
SumOf(key, records) ==
    IF records = {} THEN 0
    ELSE LET r == CHOOSE x \in records : TRUE
         IN  trace_wages(r, key) + SumOf(key, records \ {r})

\* the YTD query without its year filter
YtdRecordsAnyYear(company_id, employee_id, calc_year, month) ==
    {r \in payrolls :
        /\ r.company_id = company_id
        /\ r.employee_id = employee_id
        /\ r.month < month}

\* the YTD query with the requested month itself included
YtdRecordsThroughMonth(company_id, employee_id, calc_year, month) ==
    {r \in payrolls :
        /\ r.company_id = company_id
        /\ r.employee_id = employee_id
        /\ r.year = calc_year
        /\ r.month <= month}

\* main.py 314-319
YtdRecords(company_id, employee_id, calc_year, month) ==
    {r \in payrolls :
        /\ r.company_id = company_id
        /\ r.employee_id = employee_id
        /\ r.year = calc_year
        /\ r.month < month}

\* main.py 345-350: the rows of the period
Existing(company_id, employee_id, calc_year, month) ==
    {r \in payrolls :
        /\ r.company_id = company_id
        /\ r.employee_id = employee_id
        /\ r.year = calc_year
        /\ r.month = month}

\* db.get(MonthlyPayroll, record_id)
GetPayroll(record_id) == {r \in payrolls : r.id = record_id}

\* the primary key the database gives a new row
NewId == IF payrolls = {} THEN 1
         ELSE (CHOOSE i \in {r.id : r \in payrolls} :
                   \A r \in payrolls : r.id <= i) + 1

\* the gate without the validator: only the files' presence is asked for
TaxTablesPresent(calc_year, pay_frequency) ==
    /\ tax_year_available(calc_year)
    /\ pay_frequency \in PayFrequencies

\* main.py 297-312: validate_fit_tables(...).ok and tax_year_available(...);
\* a validator that raises ends the request as well
TaxTablesUsable(calc_year, pay_frequency) ==
    LET validation_result == validate_fit_tables(calc_year, pay_frequency)
    IN  /\ validation_result.raised = ""
        /\ validation_result.ok
        /\ tax_year_available(calc_year)

\* main.py 297: year or company.default_tax_year
CalcYear(year, company_id) ==
    IF year # 0 THEN year ELSE Company(company_id).default_tax_year

\* the scope check without the comparison of the employee's company
InScopeOfAnyCompany(company_id, employee_id) ==
    /\ company_id \in Companies
    /\ employee_id \in employees

\* main.py 293-294
InScope(company_id, employee_id) ==
    /\ company_id \in Companies
    /\ employee_id \in employees
    /\ Employee(employee_id).company_id = company_id

\* main.py 324-336: the call upsert_payroll makes
UpsertCall(company_id, employee_id, calc_year, month, bonus, reimbursements, deductions) ==
    LET ytd_records == YtdRecords(company_id, employee_id, calc_year, month)
    IN  CallOf([f \in DOMAIN Employee(employee_id) \ {"company_id"} |->
                    Employee(employee_id)[f]],
               calc_year, bonus, reimbursements, deductions,
               <<SumOf("ss_taxable_wages", ytd_records),
                 SumOf("medicare_taxable_wages", ytd_records),
                 SumOf("futa_taxable_wages", ytd_records),
                 SumOf("suta_taxable_wages", ytd_records)>>,
               Company(company_id).fl_suta_rate)

\* a table without the UNIQUE constraint
NoConstraint(rows) == TRUE

\* the UNIQUE(company_id, employee_id, year, month) constraint, models.py 64-66
UniquePeriods(rows) ==
    \A r1, r2 \in rows :
        (/\ r1.company_id = r2.company_id
         /\ r1.employee_id = r2.employee_id
         /\ r1.year = r2.year
         /\ r1.month = r2.month) => r1 = r2

\* main.py 358-361: the row as saved
SavedRow(id, company_id, employee_id, calc_year, month, bonus, reimbursements, deductions, res) ==
    [id |-> id, company_id |-> company_id, employee_id |-> employee_id,
     year |-> calc_year, month |-> month, bonus |-> bonus,
     reimbursements |-> reimbursements, deductions |-> deductions] @@ res

\* data/tax with the 2026 directory filled by copying 2025's FIT tables
StaleFiles ==
    [InstalledFiles EXCEPT ![2026].fit = [f \in PayFrequencies |-> FitJson(2025)]]

\* data/tax with a 2026 rates.json that has no "suta" entry: the validators
\* do not look into rates.json, load_tax_year_data does
IncompleteFiles == [InstalledFiles EXCEPT ![2026].rates.keys = @ \ {"suta"}]

LedgerFiles == {InstalledFiles, StaleFiles, IncompleteFiles}

InitLedger ==
    /\ tax_files \in LedgerFiles
    /\ payrolls = {}
    /\ in_order = TRUE
    /\ employees = EmployeeIds
    /\ CalcIdle
    /\ ValidatorIdle
    /\ HistoryIdle
    /\ FitIdle

\* main.py 293-312: outside the company's scope, or tax tables refused
UpsertRefused(company_id, employee_id, calc_year, pay_frequency) ==
    /\ \/ ~InScope(company_id, employee_id)
       \/ /\ InScope(company_id, employee_id)
          /\ ~TaxTablesUsable(calc_year, pay_frequency)
    /\ UNCHANGED vars

\* main.py 352-354: record_id names no row of the company
UpsertRecordNotFound(company_id, record_id) ==
    /\ record_id # 0
    /\ \A r \in GetPayroll(record_id) : r.company_id # company_id
    /\ UNCHANGED vars

\* main.py 345-368, the request that reaches db.commit(); res: the result
\* calculate_monthly_payroll returned at lines 324-336
UpsertCommit(company_id, employee_id, calc_year, month, bonus, reimbursements, deductions, record_id, res) ==
    LET existing == Existing(company_id, employee_id, calc_year, month)
        recs == IF record_id # 0 THEN GetPayroll(record_id) ELSE existing
        created == recs = {}
        id == IF created THEN NewId ELSE (CHOOSE r \in recs : TRUE).id
        row == SavedRow(id, company_id, employee_id, calc_year, month, bonus,
                        reimbursements, deductions, res)
        saved == (payrolls \ recs) \cup {row}
        later == \A r \in YtdRecords(company_id, employee_id, calc_year, MaxMonth + 1) :
                     r.month < month
    IN  /\ record_id # 0 => \E r \in recs : r.company_id = company_id
        /\ created => NewId <= MaxRecords
        /\ IF UniquePeriods(saved)
           THEN /\ payrolls' = saved
                /\ in_order' = (in_order /\ created /\ later)
           ELSE \* IntegrityError: rollback
                UNCHANGED <<payrolls, in_order>>
        /\ UNCHANGED <<tax_files, call, locals, result, pc, raised, files_read,
                       validation, history, fit_in, fit_out, employees>>

\* main.py 314-368: the calculation (its exception ends the request at
\* lines 337-343), then the record lookup and the commit
UpsertCalculate(company_id, employee_id, calc_year, month, bonus, reimbursements, deductions) ==
    \E c \in {UpsertCall(company_id, employee_id, calc_year, month, bonus,
                         reimbursements, deductions)} :
        \/ /\ Raises(c)
           /\ UNCHANGED vars
        \/ /\ ~Raises(c)
           /\ \E res \in {calculate_monthly_payroll(c)},
                 record_id \in RequestRecordIds :
                  \/ UpsertRecordNotFound(company_id, record_id)
                  \/ UpsertCommit(company_id, employee_id, calc_year, month, bonus,
                                  reimbursements, deductions, record_id, res)

\* main.py 290-368.  The scope check and the tax-table gate come first;
\* the calculation, the record lookup and the commit follow for the requests
\* they let pass.  calc_year and pay_frequency are lines 296-297's values.
upsert_payroll ==
    \E company_id \in RequestCompanies, employee_id \in RequestEmployees,
       year \in RequestYears :
        \E calc_year \in {CalcYear(year, company_id)},
           pay_frequency \in {Employee(employee_id).pay_frequency} :
            \/ UpsertRefused(company_id, employee_id, calc_year, pay_frequency)
            \/ /\ InScope(company_id, employee_id)
               /\ TaxTablesUsable(calc_year, pay_frequency)
               /\ \E month \in Months, bonus \in RequestBonus :
                      UpsertCalculate(company_id, employee_id, calc_year,
                                      month, bonus, 0, 0)

\* main.py 370-378
delete_payroll ==
    \E company_id \in RequestCompanies, record_id \in 1..MaxRecords :
        LET recs == GetPayroll(record_id)
        IN  IF company_id \notin Companies \/ recs = {}
               \/ \E r \in recs : r.company_id # company_id
            THEN UNCHANGED vars
            ELSE /\ payrolls' = payrolls \ recs
                 /\ in_order' = FALSE
                 /\ UNCHANGED <<tax_files, call, locals, result, pc, raised, files_read,
                                validation, history, fit_in, fit_out, employees>>

Next == upsert_payroll \/ delete_payroll

Spec == InitLedger /\ [][Next]_vars

----------------------------------------------------------------------------
(* One request studied per behaviour: the ledger is built up by upserts and *)
(* deletes, then one request is served and its response is kept next to the *)
(* tables it left.  call: the request, result: the response.                *)

Request(kind, company_id, employee_id, year, month, record_id) ==
    [kind |-> kind, company_id |-> company_id, employee_id |-> employee_id,
     year |-> year, month |-> month, record_id |-> record_id]

UpsertRequests ==
    {Request("upsert_payroll", company_id, employee_id, year, month, record_id) :
        company_id \in RequestCompanies, employee_id \in RequestEmployees,
        year \in {0, 2099}, month \in Months, record_id \in RequestRecordIds}

DeletePayrollRequests ==
    {Request("delete_payroll", company_id, 0, 0, 0, record_id) :
        company_id \in RequestCompanies, record_id \in 1..MaxRecords}

DeleteEmployeeRequests ==
    {Request("delete_employee", company_id, employee_id, 0, 0, 0) :
        company_id \in RequestCompanies, employee_id \in RequestEmployees}

\* a response that leaves the session's changes unwritten
Redirect(message, rows) ==
    [message |-> message, payrolls |-> rows, in_order |-> in_order]

\* main.py 352-361: what the handler holds when it reaches db.commit():
\* loaded, the row it edits as it read it (none: a new row), and row, the
\* values it set on it (id 0: not yet given by the database)
Pending(message, loaded, row, existing) ==
    [message |-> message, loaded |-> loaded, row |-> row, existing |-> existing]

\* main.py 345-361, for a request the gates let pass; res: the calculation
UpsertEdit(req, calc_year, res) ==
    LET existing == Existing(req.company_id, req.employee_id, calc_year, req.month)
        recs == IF req.record_id # 0 THEN GetPayroll(req.record_id) ELSE existing
    IN  IF /\ req.record_id # 0
           /\ \A r \in recs : r.company_id # req.company_id
        THEN Pending("Payroll record not found", {}, NoResult, FALSE)
        ELSE Pending("",
                     recs,
                     SavedRow(IF recs = {} THEN 0 ELSE (CHOOSE r \in recs : TRUE).id,
                              req.company_id, req.employee_id, calc_year,
                              req.month, 0, 0, 0, res),
                     existing # {} \/ req.record_id # 0)

\* main.py 314-343: the calculation on the YTD rows, its exception ending
\* the request
UpsertCompute(req, calc_year, c) ==
    IF Raises(c)
    THEN Pending(calc_error(c), {}, NoResult, FALSE)
    ELSE UpsertEdit(req, calc_year, calculate_monthly_payroll(c))

\* main.py 296-312: the tax-table gate
UpsertGate(req, calc_year) ==
    IF ~TaxTablesUsable(calc_year, Employee(req.employee_id).pay_frequency)
    THEN Pending("Tax tables missing or invalid", {}, NoResult, FALSE)
    ELSE UpsertCompute(req, calc_year,
                       UpsertCall(req.company_id, req.employee_id, calc_year,
                                  req.month, 0, 0, 0))

\* main.py 290-361: the handler up to its db.commit()
UpsertRead(req) ==
    IF ~InScope(req.company_id, req.employee_id)
    THEN Pending("Employee outside company scope", {}, NoResult, FALSE)
    ELSE UpsertGate(req, CalcYear(req.year, req.company_id))

\* the primary key the database gives a row inserted into rows
NewIdIn(rows) ==
    IF rows = {} THEN 1
    ELSE (CHOOSE i \in {r.id : r \in rows} : \A r \in rows : r.id <= i) + 1

\* the UPDATE the session flushes: the columns whose value the handler
\* changed on the row it loaded, written onto the row as it is stored now
Updated(current, loaded, row) ==
    [f \in DOMAIN row |-> IF row[f] # loaded[f] THEN row[f] ELSE current[f]]

\* the save is a new row of a month later than every stored one of the year
SavedInOrder(rows, h) ==
    /\ in_order
    /\ h.loaded = {}
    /\ \A r \in rows :
           (/\ r.company_id = h.row.company_id
            /\ r.employee_id = h.row.employee_id
            /\ r.year = h.row.year) => r.month < h.row.month

\* the commit on a table without the UNIQUE constraint
CommittedUnchecked(rows, h, saved) ==
    [message |-> IF h.existing THEN "Payroll updated" ELSE "Payroll created",
     payrolls |-> saved,
     in_order |-> SavedInOrder(rows, h)]

\* main.py 363-367 on the table as it is at the commit: INSERT or UPDATE
\* under UNIQUE(company_id, employee_id, year, month); saved: the table
\* the statement would leave
Committed(rows, h, saved) ==
    IF ~UniquePeriods(saved)
    THEN Redirect("Duplicate payroll period for employee", rows)
    ELSE [message |-> IF h.existing THEN "Payroll updated" ELSE "Payroll created",
          payrolls |-> saved,
          in_order |-> SavedInOrder(rows, h)]

\* main.py 363: db.commit() flushes the pending row
Flush(rows, h) ==
    IF h.message # "" THEN Redirect(h.message, rows)
    ELSE IF h.loaded = {}
    THEN Committed(rows, h, rows \cup {[h.row EXCEPT !.id = NewIdIn(rows)]})
    ELSE IF h.row \in h.loaded
    THEN \* nothing was changed on the row: no statement
         Committed(rows, h, rows)
    ELSE IF \A r \in rows : r.id # h.row.id
    THEN \* the row is gone: UPDATE matches no row
         Redirect("StaleDataError", rows)
    ELSE Committed(rows, h,
                   {IF r.id = h.row.id
                    THEN Updated(r, CHOOSE l \in h.loaded : TRUE, h.row)
                    ELSE r : r \in rows})

\* main.py 370-378
DeletePayrollServed(req) ==
    LET recs == GetPayroll(req.record_id)
    IN  IF \/ req.company_id \notin Companies
           \/ \A r \in recs : r.company_id # req.company_id
        THEN [message |-> "Record not found", payrolls |-> payrolls,
              employees |-> employees]
        ELSE [message |-> "Payroll deleted", payrolls |-> payrolls \ recs,
              employees |-> employees]

\* main.py 267-275; models.py: the employee's payrolls go with it
\* (ondelete="CASCADE", PRAGMA foreign_keys=ON)
DeleteEmployeeServed(req) ==
    IF \/ req.company_id \notin Companies
       \/ req.employee_id \notin employees
       \/ Employee(req.employee_id).company_id # req.company_id
    THEN [message |-> "Employee not found", payrolls |-> payrolls,
          employees |-> employees]
    ELSE [message |-> "Employee deleted",
          payrolls |-> {r \in payrolls : r.employee_id # req.employee_id},
          employees |-> employees \ {req.employee_id}]

InitReq ==
    /\ tax_files \in LedgerFiles
    /\ payrolls = {}
    /\ in_order = TRUE
    /\ employees = EmployeeIds
    /\ CalcIdle
    /\ ValidatorIdle
    /\ HistoryIdle
    /\ FitIdle

\* a save served before the request under study: upsert_payroll without a
\* record_id
Earlier ==
    /\ pc = "idle"
    /\ \E req \in {q \in UpsertRequests : q.record_id = 0} :
           \E out \in {Flush(payrolls, UpsertRead(req))} :
               /\ \A r \in out.payrolls : r.id <= MaxRecords
               /\ payrolls' = out.payrolls
               /\ in_order' = out.in_order
    /\ UNCHANGED <<tax_files, call, locals, result, pc, raised, files_read,
                   validation, history, fit_in, fit_out, employees>>

\* main.py 290-368
ServeUpsert ==
    /\ pc = "idle"
    /\ \E req \in UpsertRequests :
           \E out \in {Flush(payrolls, UpsertRead(req))} :
               /\ \A r \in out.payrolls : r.id <= MaxRecords
               /\ call' = req
               /\ result' = [message |-> out.message]
               /\ pc' = "served"
               /\ payrolls' = out.payrolls
               /\ in_order' = out.in_order
    /\ UNCHANGED <<tax_files, locals, raised, files_read, validation, history,
                   fit_in, fit_out, employees>>

\* main.py 370-378
ServeDeletePayroll ==
    /\ pc = "idle"
    /\ \E req \in DeletePayrollRequests :
           \E out \in {DeletePayrollServed(req)} :
               /\ call' = req
               /\ result' = [message |-> out.message]
               /\ pc' = "served"
               /\ payrolls' = out.payrolls
               /\ in_order' = (in_order /\ out.payrolls = payrolls)
    /\ UNCHANGED <<tax_files, locals, raised, files_read, validation, history,
                   fit_in, fit_out, employees>>

\* main.py 267-275
ServeDeleteEmployee ==
    /\ pc = "idle"
    /\ \E req \in DeleteEmployeeRequests :
           \E out \in {DeleteEmployeeServed(req)} :
               /\ call' = req
               /\ result' = [message |-> out.message]
               /\ pc' = "served"
               /\ payrolls' = out.payrolls
               /\ employees' = out.employees
               /\ in_order' = (in_order /\ out.payrolls = payrolls)
    /\ UNCHANGED <<tax_files, locals, raised, files_read, validation, history,
                   fit_in, fit_out>>

NextReq == Earlier \/ ServeUpsert \/ ServeDeletePayroll \/ ServeDeleteEmployee

SpecReq == InitReq /\ [][NextReq]_vars

----------------------------------------------------------------------------
(* Two requests interleaved.  The handlers run in the server's thread pool, *)
(* each on a session of its own: an upsert_payroll reads the tables, and    *)
(* before it commits another request may be served in full.  locals: what   *)
(* the request in flight holds at its db.commit().                          *)

\* the two requests are about one employee: company 1's
FlightRequests ==
    {Request("upsert_payroll", 1, 1, 0, month, record_id) :
        month \in Months, record_id \in RequestRecordIds}

\* main.py 290-361: the request reads the tables and edits its row
BeginUpsert ==
    /\ pc = "idle"
    /\ \E req \in FlightRequests :
           /\ call' = req
           /\ locals' = UpsertRead(req)
    /\ pc' = "begun"
    /\ UNCHANGED <<tax_files, result, raised, files_read, validation, history,
                   fit_in, fit_out, payrolls, in_order, employees>>

\* another upsert_payroll (main.py 290-368) or delete_payroll (370-378) is
\* served while the request is in flight
Overtake ==
    /\ pc = "begun"
    /\ \/ \E req \in FlightRequests :
              \E out \in {Flush(payrolls, UpsertRead(req))} :
                  /\ \A r \in out.payrolls : r.id <= MaxRecords
                  /\ payrolls' = out.payrolls
                  /\ in_order' = out.in_order
       \/ \E req \in DeletePayrollRequests :
              /\ payrolls' = DeletePayrollServed(req).payrolls
              /\ in_order' = (in_order /\ payrolls' = payrolls)
    /\ pc' = "overtaken"
    /\ UNCHANGED <<tax_files, call, locals, result, raised, files_read, validation,
                   history, fit_in, fit_out, employees>>

\* main.py 363-368: the request in flight commits on the tables as they
\* are now
FinishUpsert ==
    /\ pc \in {"begun", "overtaken"}
    /\ \E out \in {Flush(payrolls, locals)} :
           /\ \A r \in out.payrolls : r.id <= MaxRecords
           /\ result' = [message |-> out.message, overtaken |-> pc = "overtaken"]
           /\ payrolls' = out.payrolls
           /\ in_order' = out.in_order
    /\ pc' = "served"
    /\ UNCHANGED <<tax_files, call, locals, raised, files_read, validation, history,
                   fit_in, fit_out, employees>>

NextFlight == Earlier \/ BeginUpsert \/ Overtake \/ FinishUpsert

SpecFlight == InitReq /\ [][NextFlight]_vars

----------------------------------------------------------------------------
(* Calls of _annual_fit_from_brackets studied in pairs: two incomes        *)
(* against one bracket table.                                              *)

MaxIncome == 12

Incomes == ((0 - 2)..MaxIncome) \cup {k * 300 : k \in 0..20}

SmallBrackets == <<Bracket(3, 1000), Bracket(7, 1200), LastBracket(2200)>>

BracketTables ==
    {FitFile(y, pf)[fs].brackets :
        y \in TaxYears, pf \in PayFrequencies, fs \in FILING_STATUS_KEYS}
    \cup {SmallBrackets,
          <<LastBracket(1000)>>,
          <<Bracket(5, 0), LastBracket(3700)>>}

InitFit ==
    /\ fit_in \in [a : Incomes, b : Incomes, brackets : BracketTables]
    /\ fit_out = NoFit
    /\ pc = "fit_call"
    /\ tax_files = InstalledFiles
    /\ call = NoCall
    /\ locals = NoLocals
    /\ result = NoResult
    /\ raised = ""
    /\ files_read = <<>>
    /\ ValidatorIdle
    /\ HistoryIdle
    /\ LedgerIdle

ApplyFit ==
    /\ pc = "fit_call"
    /\ fit_out' = [a |-> annual_fit_from_brackets(fit_in.a, fit_in.brackets),
                   b |-> annual_fit_from_brackets(fit_in.b, fit_in.brackets),
                   brackets |-> fit_in.brackets]
    /\ pc' = "fit_returned"
    /\ UNCHANGED <<tax_files, call, locals, result, raised, files_read, validation,
                   history, fit_in, payrolls, in_order, employees>>

NextFit == ApplyFit

SpecFit == InitFit /\ [][NextFit]_vars

----------------------------------------------------------------------------
(* The loader, the validators and the calculation against damaged tax      *)
(* tables: data/tax/2025 with at most MaxDefects files replaced by a       *)
(* missing, unreadable, incomplete or stale file, or absent as a whole.    *)
(* One call of one of the functions is studied per behaviour; call holds   *)
(* its arguments (load_tax_year_data and the validators use the year and   *)
(* the employee's pay frequency), result what load_tax_year_data or        *)
(* calculate_monthly_payroll returned, validation what a validator         *)
(* returned, raised the exception that left the function.                  *)

MaxDefects == 2

OtherYear(year) == IF year = 2025 THEN 2026 ELSE 2025

MetadataDefects(year) ==
    LET m == MetadataJson(year)
    IN  {MissingFile(m), [m EXCEPT !.state = "invalid"], [m EXCEPT !.state = "array"],
         [m EXCEPT !.has_fields = FALSE], [m EXCEPT !.tax_year = None],
         [m EXCEPT !.tax_year = OtherYear(year)], [m EXCEPT !.method = "annualized"],
         [m EXCEPT !.method = "wage_bracket"]}

RatesDefects(year) ==
    LET r == RatesJson(year)
    IN  {MissingFile(r), [r EXCEPT !.state = "invalid"], [r EXCEPT !.state = "array"],
         [r EXCEPT !.keys = @ \ {"suta"}], [r EXCEPT !.origin = OtherYear(year)],
         [r EXCEPT !.without = {<<"social_security", "wage_base">>}],
         [r EXCEPT !.without = {<<"additional_threshold", StatusOrder[3]>>}]}

ValidationDefects(year) ==
    LET v == ValidationJson(year)
        s == StatusOrder[1]
    IN  {MissingFile(v), [v EXCEPT !.state = "invalid"], [v EXCEPT !.state = "array"],
         [v EXCEPT !.tax_year = OtherYear(year)],
         [v EXCEPT !.standard_deduction[s] = @ + 1],
         [v EXCEPT !.standard_deduction = [t \in FILING_STATUS_KEYS |-> None]],
         [v EXCEPT !.bracket_thresholds[s][2] = @ + 100],
         [v EXCEPT !.bracket_thresholds[s] = @ \o <<9000>>],
         [v EXCEPT !.bracket_thresholds = [t \in FILING_STATUS_KEYS |-> <<>>]]}

FitDefects(year) ==
    LET f == FitJson(year)
        s == StatusOrder[3]
    IN  {MissingFile(f), [f EXCEPT !.state = "invalid"], [f EXCEPT !.state = "array"],
         [f EXCEPT !.statuses = @ \ {s}],
         [f EXCEPT !.with_standard_deduction = @ \ {s}],
         [f EXCEPT !.with_brackets = @ \ {s}],
         [f EXCEPT !.origin = OtherYear(year)]}

\* the frequencies whose FIT file is damaged in every way; the files of the
\* others are at most missing
DamagedFrequencies == {"monthly", "weekly"}

\* the directories one more replaced file away from those of dirs
OneMoreDefect(dirs, year) ==
    {[d EXCEPT !.metadata = m] : d \in dirs, m \in MetadataDefects(year)}
    \cup {[d EXCEPT !.rates = r] : d \in dirs, r \in RatesDefects(year)}
    \cup {[d EXCEPT !.validation = v] : d \in dirs, v \in ValidationDefects(year)}
    \cup {[d EXCEPT !.fit[f] = x] :
              d \in dirs, f \in DamagedFrequencies, x \in FitDefects(year)}
    \cup {[d EXCEPT !.fit[f] = MissingFile(FitJson(year))] :
              d \in dirs, f \in PayFrequencies}

RECURSIVE Damaged(_, _)
Damaged(year, n) ==
    IF n = 0 THEN {InstalledDir(year)}
    ELSE Damaged(year, n - 1) \cup OneMoreDefect(Damaged(year, n - 1), year)

\* data/tax with the 2025 directory damaged in at most n files, or absent
StoreFiles(n) ==
    {[InstalledFiles EXCEPT ![2025] = d] : d \in Damaged(2025, n) \cup {AbsentDir}}

StoreCalls ==
    {CallOf(EmployeeOf(pf, StatusOrder[1], 125, NoW4), 2025, 0, 0, 0, <<0, 0, 0, 0>>, 270) :
         pf \in {"monthly", "weekly", "quarterly"}}
    \cup {CallOf(EmployeeOf("monthly", fs, 125, NoW4), 2025, 0, 0, 0, <<0, 0, 0, 0>>, 270) :
              fs \in {"single", StatusOrder[3]}}
    \cup {CallOf(EmployeeOf("monthly", StatusOrder[1], 125, NoW4), y, 0, 0, 0,
                 <<0, 0, 0, 0>>, 270) : y \in {2026, 2099}}

InitStore ==
    /\ tax_files \in StoreFiles(MaxDefects)
    /\ call \in StoreCalls
    /\ locals = NoLocals
    /\ result = NoResult
    /\ pc = "call"
    /\ raised = ""
    /\ files_read = <<>>
    /\ ValidatorIdle
    /\ HistoryIdle
    /\ FitIdle
    /\ LedgerIdle

\* payroll.py 50-69: load_tax_year_data(year, pay_frequency) raises
LoadRaise ==
    /\ pc = "call"
    /\ load_error(call.year, call.employee.pay_frequency) # ""
    /\ pc' = "load_raised"
    /\ raised' = load_error(call.year, call.employee.pay_frequency)
    /\ files_read' = load_reads(call.year, call.employee.pay_frequency)
    /\ UNCHANGED <<tax_files, call, locals, result, validation, history,
                   fit_in, fit_out, payrolls, in_order, employees>>

\* payroll.py 50-82: load_tax_year_data(year, pay_frequency) returns
LoadReturn ==
    /\ pc = "call"
    /\ load_error(call.year, call.employee.pay_frequency) = ""
    /\ pc' = "loaded"
    /\ result' = load_tax_year_data(call.year, call.employee.pay_frequency)
    /\ raised' = ""
    /\ files_read' = load_reads(call.year, call.employee.pay_frequency)
    /\ UNCHANGED <<tax_files, call, locals, validation, history,
                   fit_in, fit_out, payrolls, in_order, employees>>

\* what a validator call leaves behind: the result it returned, or the
\* exception that left it
Validated(position, vr) ==
    /\ pc = "call"
    /\ pc' = position
    /\ raised' = vr.raised
    /\ validation' = IF vr.raised = "" THEN vr ELSE ValidationResult
    /\ UNCHANGED <<tax_files, call, locals, result, files_read, history,
                   fit_in, fit_out, payrolls, in_order, employees>>

\* tax_validation.py 48-95
ValidateTaxYear == Validated("validated_year", validate_tax_year_data(call.year))

\* tax_validation.py 98-147
ValidateFit ==
    Validated("validated_fit", validate_fit_tables(call.year, call.employee.pay_frequency))

NextStore ==
    \/ CalcRaise
    \/ CalcReturn
    \/ LoadRaise
    \/ LoadReturn
    \/ ValidateTaxYear
    \/ ValidateFit

SpecStore == InitStore /\ [][NextStore]_vars

----------------------------------------------------------------------------
(* Calls of calculate_monthly_payroll made one after the other, in any     *)
(* order, while the tax-table files are replaced now and then.  history    *)
(* keeps, for each call, its arguments, the files it ran against, and what *)
(* it raised or returned.                                                  *)

MaxCalls == 3

SeqFiles == {InstalledFiles, StaleFiles}

SeqCalls ==
    {CallOf(EmployeeOf("monthly", StatusOrder[1], 125, NoW4), y, 0, 0, 0, <<0, 0, 0, 0>>, sr) :
         y \in TaxYears, sr \in SutaRateValues}
    \cup {CallOf(EmployeeOf("quarterly", StatusOrder[1], 125, NoW4), 2025, 0, 0, 0,
                 <<0, 0, 0, 0>>, 270)}

InitSeq ==
    /\ tax_files \in SeqFiles
    /\ history = <<>>
    /\ pc = "serving"
    /\ call = NoCall
    /\ locals = NoLocals
    /\ result = NoResult
    /\ raised = ""
    /\ files_read = <<>>
    /\ ValidatorIdle
    /\ FitIdle
    /\ LedgerIdle

\* a call that remembers the wages of the calls before it
CallRecordCarried(c) ==
    LET carried == [c EXCEPT !.ytd_ss_wages = @ + 600 * Len(history)]
    IN  [call |-> c, files |-> tax_files, raised |-> calc_error(c),
         result |-> IF Raises(c) THEN NoResult ELSE calculate_monthly_payroll(carried)]

\* payroll.py 105-223: one call, as the caller sees it
CallRecord(c) ==
    [call |-> c, files |-> tax_files, raised |-> calc_error(c),
     result |-> IF Raises(c) THEN NoResult ELSE calculate_monthly_payroll(c)]

Calculate ==
    /\ pc = "serving"
    /\ Len(history) < MaxCalls
    /\ \E c \in SeqCalls : history' = Append(history, CallRecord(c))
    /\ UNCHANGED <<tax_files, call, locals, result, pc, raised, files_read, validation,
                   fit_in, fit_out, payrolls, in_order, employees>>

\* the files under data/tax are replaced between two calls
ReplaceFiles ==
    /\ pc = "serving"
    /\ tax_files' \in SeqFiles \ {tax_files}
    /\ UNCHANGED <<call, locals, result, pc, raised, files_read, validation, history,
                   fit_in, fit_out, payrolls, in_order, employees>>

NextSeq == Calculate \/ ReplaceFiles

SpecSeq == InitSeq /\ [][NextSeq]_vars

----------------------------------------------------------------------------
(* parse_rate_to_decimal(rate_str_or_number), utils/rates.py 6-37, and the  *)
(* company form that stores its value, main.py 131-154.  An argument is a   *)
(* number, or a string: blank, a decimal literal, or something else, each   *)
(* with or without a '%' suffix.  raw, the Decimal the code parses, is in   *)
(* 1/RateDen; the rate returned is in 1/RateOutDen, so that raw / 100 is    *)
(* exact.  One call is studied per behaviour: call holds the argument,      *)
(* result the rate returned or stored, raised the exception.                *)

MaxRateSteps == 4

RateOutDen == RateDen * 100

\* 0.009 to 0.036 and 0.9 to 3.6, 1 and 100, and the same below zero
RawValues ==
    {k * 90 : k \in (0 - MaxRateSteps)..MaxRateSteps}
        \cup {k * 9000 : k \in (0 - MaxRateSteps)..MaxRateSteps}
        \cup {0 - 100 * RateDen, 0 - RateDen, RateDen, 100 * RateDen}

RateArgument(type, body, pct_suffix, raw) ==
    [type |-> type, body |-> body, pct_suffix |-> pct_suffix, raw |-> raw]

RateArguments ==
    {RateArgument("number", "decimal", FALSE, raw) : raw \in RawValues}
        \cup {RateArgument("str", "decimal", pct, raw) : pct \in BOOLEAN, raw \in RawValues}
        \cup {RateArgument("str", body, pct, 0) : body \in {"blank", "other"}, pct \in BOOLEAN}

\* rates.py 13-37: the exception the call raises ("": it returns)
parse_rate_error(a) ==
    IF a.type = "str" /\ a.body = "blank" /\ ~a.pct_suffix THEN "ValueError"
    ELSE IF a.type = "str" /\ a.body # "decimal" THEN "ValueError"
    ELSE IF a.type = "str" /\ a.pct_suffix THEN ""
    ELSE IF a.raw < 0 THEN "ValueError"
    ELSE ""

\* rates.py 13-37: the value returned, in 1/RateOutDen
parse_rate_to_decimal(a) ==
    IF a.type = "str" /\ a.pct_suffix THEN a.raw
    ELSE IF a.raw <= RateDen THEN a.raw * 100
    ELSE a.raw

InitRate ==
    /\ tax_files = InstalledFiles
    /\ call \in RateArguments
    /\ locals = NoLocals
    /\ result = NoResult
    /\ pc = "call"
    /\ raised = ""
    /\ files_read = <<>>
    /\ ValidatorIdle
    /\ HistoryIdle
    /\ FitIdle
    /\ LedgerIdle

\* rates.py 6-37: the call raises
ParseRaise ==
    /\ pc = "call"
    /\ parse_rate_error(call) # ""
    /\ pc' = "parse_raised"
    /\ raised' = parse_rate_error(call)
    /\ UNCHANGED <<tax_files, call, locals, result, files_read, validation, history,
                   fit_in, fit_out, payrolls, in_order, employees>>

\* rates.py 6-37: the call returns
ParseReturn ==
    /\ pc = "call"
    /\ parse_rate_error(call) = ""
    /\ pc' = "parsed"
    /\ result' = [rate |-> parse_rate_to_decimal(call)]
    /\ UNCHANGED <<tax_files, call, locals, raised, files_read, validation, history,
                   fit_in, fit_out, payrolls, in_order, employees>>

\* main.py 146-149: the form's fl_suta_rate, a string, is refused
CompanyRefused ==
    /\ pc = "call"
    /\ call.type = "str"
    /\ parse_rate_error(call) # ""
    /\ pc' = "refused"
    /\ UNCHANGED <<tax_files, call, locals, result, raised, files_read, validation,
                   history, fit_in, fit_out, payrolls, in_order, employees>>

\* main.py 146-153: the company row is saved with the parsed rate
CompanyStored ==
    /\ pc = "call"
    /\ call.type = "str"
    /\ parse_rate_error(call) = ""
    /\ pc' = "stored"
    /\ result' = [fl_suta_rate |-> parse_rate_to_decimal(call)]
    /\ UNCHANGED <<tax_files, call, locals, raised, files_read, validation, history,
                   fit_in, fit_out, payrolls, in_order, employees>>

\* main.py 131-154
upsert_company == CompanyRefused \/ CompanyStored

NextRate == ParseRaise \/ ParseReturn \/ upsert_company

SpecRate == InitRate /\ [][NextRate]_vars

----------------------------------------------------------------------------
(* Properties of the bracket walk *)

\* lower bound of bracket i: the previous bracket's upper bound, 0 for the first
LowerBound(brackets, i) == IF i = 1 THEN 0 ELSE brackets[i - 1].up_to

\* the part of income inside bracket i
PortionIn(brackets, i, income) ==
    LET top == IF brackets[i].bounded THEN Min(income, brackets[i].up_to) ELSE income
    IN  Max(0, top - LowerBound(brackets, i))

RECURSIVE MarginalSum(_, _, _)
MarginalSum(brackets, i, income) ==
    IF i > Len(brackets) THEN 0
    ELSE brackets[i].rate * PortionIn(brackets, i, income)
             + MarginalSum(brackets, i + 1, income)

RECURSIVE HighestRate(_, _)
HighestRate(brackets, i) ==
    IF i > Len(brackets) THEN 0
    ELSE Max(brackets[i].rate, HighestRate(brackets, i + 1))

\* C5: for an ascending bracket table whose last bracket is unbounded, the
\* walk returns the sum over the brackets of rate_i times the part of the
\* income inside [lower_i, upper_i); an income <= 0 yields 0.
C5_MarginalSum ==
    pc = "fit_returned" =>
        /\ fit_out.a = MarginalSum(fit_in.brackets, 1, fit_in.a)
        /\ fit_in.a <= 0 => fit_out.a = 0

\* an income in the last of at least three brackets has been taxed
C5_Witness ==
    /\ pc = "fit_returned"
    /\ Len(fit_in.brackets) >= 3
    /\ fit_in.a > fit_in.brackets[Len(fit_in.brackets) - 1].up_to
    /\ fit_out.a > 0

\* C6: for incomes 0 <= a <= b against one table, tax(a) <= tax(b) and
\* tax(b) - tax(a) <= (b - a) * (highest marginal rate).
C6_MonotoneContinuous ==
    (pc = "fit_returned" /\ 0 <= fit_in.a /\ fit_in.a <= fit_in.b) =>
        /\ fit_out.a <= fit_out.b
        /\ fit_out.b - fit_out.a <= (fit_in.b - fit_in.a) * HighestRate(fit_in.brackets, 1)

\* two incomes one cent apart on either side of a bracket boundary
C6_Witness ==
    /\ pc = "fit_returned"
    /\ fit_in.b = fit_in.a + 1
    /\ \E i \in 1..Len(fit_in.brackets) :
           /\ fit_in.brackets[i].bounded
           /\ fit_in.brackets[i].up_to = fit_in.b
    /\ fit_out.a < fit_out.b

----------------------------------------------------------------------------
(* Properties of one call of calculate_monthly_payroll *)

Returned == pc = "returned"

Steps == result.calculation_trace.steps

CallRates == Rates(call.year)

\* the three capped taxes of the returned call:
\* <<wage base, YTD passed in, taxable wages of the trace, unrounded tax, rate>>
SsCap ==
    [wage_base |-> CallRates.social_security.wage_base,
     ytd |-> call.ytd_ss_wages,
     taxable |-> Steps.ss_taxable_wages]
FutaCap ==
    [wage_base |-> CallRates.futa.wage_base,
     ytd |-> call.ytd_futa_wages,
     taxable |-> Steps.futa_taxable_wages]
SutaCap ==
    [wage_base |-> CallRates.suta.wage_base,
     ytd |-> call.ytd_suta_wages,
     taxable |-> Steps.suta_taxable_wages]

Caps == {SsCap, FutaCap, SutaCap}

\* C2 as stated: after any call, for every YTD value >= 0,
\* taxable_this_period + ytd_taxable_wages <= wage_base.
C2_AsStated ==
    Returned => \A t \in Caps : t.taxable + t.ytd <= t.wage_base

\* C2 amended: after any call, for every YTD value with
\* 0 <= ytd <= wage_base, taxable_this_period + ytd <= wage_base; for a YTD
\* above the wage base the taxable wages are 0.
C2_WithinWageBase ==
    Returned =>
        \A t \in Caps :
            /\ t.ytd <= t.wage_base => t.taxable + t.ytd <= t.wage_base
            /\ t.ytd > t.wage_base => t.taxable = 0

\* a period that fills the wage base exactly, cut down from larger wages
C2_Witness ==
    /\ Returned
    /\ \E t \in Caps :
           /\ t.taxable > 0
           /\ t.taxable + t.ytd = t.wage_base
           /\ t.taxable < Steps.taxable_wages

\* the taxable wages the three cases of a wage base give
ExpectedCapped(wage_base, ytd, period) ==
    IF ytd + period <= wage_base THEN period
    ELSE IF ytd >= wage_base THEN 0
    ELSE wage_base - ytd

\* C3: the taxable wages of each capped tax are the full period wages when
\* ytd + period <= wage_base, wage_base - ytd when the period straddles the
\* cap and 0 once ytd >= wage_base; the tax is that amount times the rate,
\* Social Security employee and employer tax on the same amount.
C3_CappedTaxable ==
    Returned =>
        /\ \A t \in Caps :
               t.taxable = ExpectedCapped(t.wage_base, t.ytd, Steps.taxable_wages)
        /\ \A t \in Caps :
               t.taxable = Min(Max(0, t.wage_base - t.ytd), Steps.taxable_wages)
        /\ locals.social_security_ee
               = SsCap.taxable * CallRates.social_security.employee_rate
        /\ locals.social_security_er
               = SsCap.taxable * CallRates.social_security.employer_rate
        /\ locals.futa_er = FutaCap.taxable * CallRates.futa.employer_rate
        /\ locals.suta_er = SutaCap.taxable * call.company_suta_rate_decimal

\* every capped tax has met its own case at once: Social Security straddles
\* its cap, FUTA or SUTA is exhausted
C3_Witness ==
    /\ Returned
    /\ 0 < SsCap.ytd /\ SsCap.ytd < SsCap.wage_base
    /\ SsCap.ytd + Steps.taxable_wages > SsCap.wage_base
    /\ SsCap.taxable = SsCap.wage_base - SsCap.ytd
    /\ FutaCap.ytd > FutaCap.wage_base /\ FutaCap.taxable = 0
    /\ SutaCap.ytd = 0 /\ SutaCap.taxable = SutaCap.wage_base

AdditionalThreshold ==
    CallRates.medicare.additional_threshold[call.employee.filing_status]

\* C4: the Additional Medicare taxable amount is
\* max(0, min(period, ytd + period - threshold)): the whole period when
\* ytd >= threshold, 0 when ytd + period <= threshold, ytd + period -
\* threshold when the period crosses; the tax is that amount times the
\* additional employee rate.
C4_AdditionalMedicare ==
    Returned =>
        LET ytd == call.ytd_medicare_wages
            period == Steps.medicare_taxable_wages
            thr == AdditionalThreshold
            amount == Steps.additional_medicare_taxable_wages
        IN  /\ amount = Max(0, Min(period, ytd + period - thr))
            /\ ytd >= thr => amount = period
            /\ ytd + period <= thr => amount = 0
            /\ (ytd < thr /\ ytd + period > thr) => amount = ytd + period - thr
            /\ locals.additional_medicare_ee
                   = amount * CallRates.medicare.additional_employee_rate

\* a period that crosses the threshold from a non-zero YTD
C4_Witness ==
    /\ Returned
    /\ 0 < call.ytd_medicare_wages
    /\ call.ytd_medicare_wages < AdditionalThreshold
    /\ call.ytd_medicare_wages + Steps.medicare_taxable_wages > AdditionalThreshold
    /\ result.additional_medicare_ee > 0

\* C7 as stated: the federal withholding returned is never below 0, whatever
\* W-4 values and pay inputs the call is given.
C7_FederalNonNegative ==
    Returned => result.federal_withholding >= 0

\* the fixed periods-per-year table
FixedPeriods(pay_frequency) ==
    CASE pay_frequency = "daily" -> 260
      [] pay_frequency = "weekly" -> 52
      [] pay_frequency = "biweekly" -> 26
      [] pay_frequency = "semimonthly" -> 24
      [] pay_frequency = "monthly" -> 12

\* nearest cent of n/d cents, a half cent going up
HalfUpCents(n, d) == (n \div d) + (IF 2 * (n % d) >= d THEN 1 ELSE 0)

\* C8: annualized = period taxable wages * P + other income - deductions;
\* fit_taxable = max(0, annualized - standard deduction); annual tax =
\* bracket tax of fit_taxable; after credit = max(0, annual tax - dependents
\* amount); withholding = after credit / P + extra withholding; P is the
\* periods-per-year of the employee's own pay frequency and the table is
\* that of the frequency and filing status.
C8_WithholdingDerivation ==
    Returned =>
        LET e == call.employee
            P == FixedPeriods(e.pay_frequency)
            table == FitFile(call.year, e.pay_frequency)[e.filing_status]
            annualized == Steps.taxable_wages * P + e.w4_other_income - e.w4_deductions
            fit_taxable == Max(0, annualized - table.standard_deduction)
            annual == MarginalSum(table.brackets, 1, fit_taxable)
            after == Max(0, annual - e.w4_dependents_amount * RateDen)
            withholding == after + e.w4_extra_withholding * RateDen * P
        IN  /\ result.calculation_trace.inputs.periods_per_year = P
            /\ Steps.fit_annualized_wages = annualized
            /\ Steps.fit_taxable_annual_wages = fit_taxable
            /\ Steps.fit_annual_tax_before_credits = annual
            /\ Steps.fit_annual_tax_after_step3_credit = after
            /\ Steps.fit_period_withholding = withholding
            /\ locals.den = RateDen * P
            /\ result.federal_withholding = HalfUpCents(withholding, RateDen * P)

\* a weekly employee with every W-4 adjustment, taxed above the credit
C8_Witness ==
    /\ Returned
    /\ call.employee.pay_frequency = "weekly"
    /\ call.employee.w4_other_income > 0
    /\ call.employee.w4_deductions > 0
    /\ call.employee.w4_dependents_amount > 0
    /\ call.employee.w4_extra_withholding > 0
    /\ Steps.fit_annual_tax_after_step3_credit > 0

\* C9 as stated: the returned net_pay equals, to the cent, the returned
\* gross_pay minus the returned federal_withholding, social_security_ee,
\* medicare_ee and additional_medicare_ee, minus the period deductions.
C9_NetOfReturnedItems ==
    Returned =>
        result.net_pay =
            result.gross_pay - result.federal_withholding
                - result.social_security_ee - result.medicare_ee
                - result.additional_medicare_ee - call.deductions

\* the unrounded amount behind each monetary field: <<field, n, d>>
MoneyFields ==
    {<<result.gross_pay, locals.gross, 1>>,
     <<result.federal_withholding, locals.federal, locals.den>>,
     <<result.social_security_ee, locals.social_security_ee, RateDen>>,
     <<result.social_security_er, locals.social_security_er, RateDen>>,
     <<result.medicare_ee, locals.medicare_ee, RateDen>>,
     <<result.medicare_er, locals.medicare_er, RateDen>>,
     <<result.additional_medicare_ee, locals.additional_medicare_ee, RateDen>>,
     <<result.futa_er, locals.futa_er, RateDen>>,
     <<result.suta_er, locals.suta_er, RateDen>>,
     <<result.net_pay, locals.net, locals.den>>}

\* C10: every monetary field is the unrounded amount rounded to the nearest
\* cent, an exact half cent going up to the next cent, never to the even one.
C10_RoundHalfUp ==
    Returned =>
        \A f \in MoneyFields :
            /\ f[1] = HalfUpCents(f[2], f[3])
            /\ 2 * (f[1] * f[3] - f[2]) <= f[3]
            /\ 2 * (f[2] - f[1] * f[3]) <= f[3]

\* an amount exactly on a half cent whose even neighbour is the lower cent
C10_Witness ==
    /\ Returned
    /\ \E f \in MoneyFields :
           /\ 2 * (f[2] % f[3]) = f[3]
           /\ (f[2] \div f[3]) % 2 = 0
           /\ f[1] = (f[2] \div f[3]) + 1

----------------------------------------------------------------------------
(* Properties of the ledger *)

\* the stored rows of one employee and year
RowsOf(employee_id, year) ==
    {r \in payrolls : r.employee_id = employee_id /\ r.year = year}

\* C1: when the periods of an employee and year are calculated in calendar
\* order, each YTD accumulator being the sum of the matching trace field of
\* the earlier periods, the sum of that trace field over the sequence equals
\* min(wage base, cumulative period taxable wages) and never exceeds the
\* wage base.
C1_ChainedYtd ==
    in_order =>
        \A e \in EmployeeIds, y \in TaxYears :
            LET rows == RowsOf(e, y)
                wages == SumOf("taxable_wages", rows)
                rates == Rates(y)
            IN  /\ SumOf("ss_taxable_wages", rows)
                       = Min(rates.social_security.wage_base, wages)
                /\ SumOf("futa_taxable_wages", rows) = Min(rates.futa.wage_base, wages)
                /\ SumOf("suta_taxable_wages", rows) = Min(rates.suta.wage_base, wages)
                /\ SumOf("ss_taxable_wages", rows) <= rates.social_security.wage_base
                /\ SumOf("futa_taxable_wages", rows) <= rates.futa.wage_base
                /\ SumOf("suta_taxable_wages", rows) <= rates.suta.wage_base

\* two periods saved in order, the second one cut down by the FUTA wage base
C1_Witness ==
    /\ in_order
    /\ \E e \in EmployeeIds, y \in TaxYears :
           LET rows == RowsOf(e, y)
           IN  /\ Cardinality(rows) >= 2
               /\ SumOf("futa_taxable_wages", rows) = Rates(y).futa.wage_base
               /\ SumOf("taxable_wages", rows) > Rates(y).futa.wage_base
               /\ \E r \in rows :
                      /\ 0 < trace_wages(r, "futa_taxable_wages")
                      /\ trace_wages(r, "futa_taxable_wages") < trace_wages(r, "taxable_wages")

----------------------------------------------------------------------------
(* Properties of sequences of calls *)

\* the calls of the history that returned
ReturnedCalls == {i \in 1..Len(history) : history[i].raised = ""}

MoneyFieldNames ==
    {"gross_pay", "federal_withholding", "social_security_ee", "social_security_er",
     "medicare_ee", "medicare_er", "additional_medicare_ee", "futa_er", "suta_er",
     "net_pay"}

\* C12: any two calculations that return equal traces return equal money
\* fields.
C12_TraceDeterminesMoney ==
    \A i, j \in ReturnedCalls :
        history[i].result.calculation_trace = history[j].result.calculation_trace
            => \A f \in MoneyFieldNames : history[i].result[f] = history[j].result[f]

----------------------------------------------------------------------------
(* Properties of the loader against damaged tax tables *)

\* the directory of the year the call asks for, as it is on disk
RequestedDir == IF call.year \in DOMAIN tax_files THEN tax_files[call.year] ELSE AbsentDir

\* the FIT file of the frequency the call asks for
RequestedFit ==
    IF call.employee.pay_frequency \in PayFrequencies
    THEN RequestedDir.fit[call.employee.pay_frequency]
    ELSE MissingFile(FitJson(0))

CalcEnded == pc \in {"raised", "returned"}
LoadEnded == pc \in {"load_raised", "loaded"}

UnsupportedArguments ==
    \/ call.employee.pay_frequency \notin
           {"daily", "weekly", "biweekly", "semimonthly", "monthly"}
    \/ call.employee.filing_status \notin
           {"single_or_married_filing_separately", "married_filing_jointly",
            "head_of_household"}

LoadComplete ==
    /\ RequestedDir.rates.state \notin {"missing"}
    /\ RequestedDir.metadata.state \notin {"missing"}
    /\ RequestedFit.state \notin {"missing"}
    /\ RequestedDir.rates.state = "object"
    /\ {"social_security", "medicare", "futa", "suta"} \subseteq RequestedDir.rates.keys
    /\ RequestedFit.state = "object"
    /\ \A s \in FILING_STATUS_KEYS :
           /\ s \in RequestedFit.statuses
           /\ s \in RequestedFit.with_standard_deduction
           /\ s \in RequestedFit.with_brackets

\* C14: load_tax_year_data either raises TaxConfigError and returns
\* nothing, or returns, and it returns only when rates.json, metadata.json
\* and the frequency's percentage_method.json exist, rates has the four
\* required keys and the FIT file has a table with standard_deduction and
\* brackets for each filing status.
C14_RaisesOrComplete ==
    LoadEnded
        => \/ pc = "load_raised" /\ raised = "TaxConfigError" /\ result = NoResult
           \/ pc = "loaded" /\ raised = "" /\ LoadComplete

RequiredFileAbsent ==
    \/ RequestedDir.rates.state = "missing"
    \/ RequestedDir.metadata.state = "missing"
    \/ RequestedFit.state = "missing"

\* load_tax_year_data meets a file that is not JSON before it meets a
\* missing one (it opens rates.json, metadata.json, the FIT file, in order)
UnreadableBeforeAbsent ==
    \/ RequestedDir.rates.state = "invalid"
    \/ RequestedDir.rates.state # "missing" /\ RequestedDir.metadata.state = "invalid"

\* every file the trace lists is one of the requested year's directory, and
\* the wage base, the tax rate and the standard deduction the steps show are
\* those of the files in that directory
FromRequestedYear ==
    LET rates == Rates(RequestedDir.rates.origin)
        table == FitFile(RequestedFit.origin, call.employee.pay_frequency)
                     [call.employee.filing_status]
        trace == result.calculation_trace
    IN  /\ trace.tax_year = call.year
        /\ \A i \in 1..Len(trace.files) : trace.files[i].year = call.year
        /\ trace.steps.ss_wage_base_remaining
               = Max(0, rates.social_security.wage_base - call.ytd_ss_wages)
        /\ locals.social_security_ee
               = trace.steps.ss_taxable_wages * rates.social_security.employee_rate
        /\ trace.steps.fit_taxable_annual_wages
               = Max(0, trace.steps.fit_annualized_wages - table.standard_deduction)
        /\ trace.steps.fit_annual_tax_before_credits
               = annual_fit_from_brackets(trace.steps.fit_taxable_annual_wages,
                                          table.brackets)

\* C15 as stated: with the directory or a required file absent,
\* load_tax_year_data raises TaxConfigError.
C15_AsStated ==
    (LoadEnded /\ RequiredFileAbsent) => (pc = "load_raised" /\ raised = "TaxConfigError")

\* C15: when the requested year's directory or one of its required files is
\* absent, load_tax_year_data raises (TaxConfigError, or JSONDecodeError
\* when it meets a file that is not JSON first) and returns nothing, and
\* calculate_monthly_payroll returns no result; a returned result lists only
\* files of the requested year's directory and uses the rates and brackets
\* of the files in it.
C15_NoFallback ==
    /\ (LoadEnded /\ RequiredFileAbsent)
           => /\ pc = "load_raised"
              /\ result = NoResult
              /\ raised = IF UnreadableBeforeAbsent THEN "JSONDecodeError"
                          ELSE "TaxConfigError"
    /\ (CalcEnded /\ RequiredFileAbsent) => (pc = "raised" /\ result = NoResult)
    /\ Returned => FromRequestedYear

\* the 2025 directory is absent while 2026 is installed, and the load raised
C15_Witness ==
    /\ pc = "load_raised"
    /\ call.year = 2025
    /\ tax_files[2025] = AbsentDir
    /\ tax_files[2026] = InstalledDir(2026)
    /\ raised = "TaxConfigError"

\* a result for 2025 computed from a 2025 directory that holds a rates.json
\* with other numbers than the 2026 directory
C15_WitnessReturned ==
    /\ Returned
    /\ call.year = 2025
    /\ Rates(tax_files[2025].rates.origin) # Rates(tax_files[2026].rates.origin)
    /\ FromRequestedYear

----------------------------------------------------------------------------
(* Properties of the ledger against stale tax tables *)

\* validate_fit_tables returns ok for the year and the employee of a row
RowValidates(r) ==
    LET vr == validate_fit_tables(r.year, Employee(r.employee_id).pay_frequency)
    IN  vr.raised = "" /\ vr.ok

\* C16: when validate_fit_tables(calc_year, employee.pay_frequency) returns
\* ok=false, upsert_payroll leaves the ledger as it was: every record a
\* step creates or changes is one of a year and an employee whose tables
\* validate.
C16_BlockedByValidation ==
    [][\A r \in payrolls' \ payrolls : RowValidates(r)]_vars

\* the 2026 tables are stale: their validation fails though both 2026 files
\* the loader needs are there; the ledger holds a record, 2026 requests left
\* it as it was
C16_Witness ==
    /\ tax_files = StaleFiles
    /\ ~validate_fit_tables(2026, Employee(1).pay_frequency).ok
    /\ tax_year_available(2026)
    /\ load_error(2026, Employee(1).pay_frequency) = ""
    /\ \E r \in payrolls : r.employee_id = 1 /\ r.year = 2025
    /\ \A r \in payrolls : r.year # 2026

----------------------------------------------------------------------------
(* Properties of the validators against damaged tax tables *)

ValidatorEnded == pc \in {"validated_year", "validated_fit"}

\* the validator returned a result
ValidatorReturned == ValidatorEnded /\ raised = ""

\* the result has an error about the file or the filing status
ErrorAbout(about) ==
    \E i \in 1..Len(validation.errors) : validation.errors[i].about = about

ErrorSaying(message) ==
    \E i \in 1..Len(validation.errors) : validation.errors[i].message = message

Unreadable(file) == file.state \in {"missing", "invalid"}

SupportedFrequency == call.employee.pay_frequency \in PayFrequencies

FileLabel ==
    [metadata |-> "metadata.json", rates |-> "rates.json", validation |-> "validation.json"]

\* what C17 asks of a returned result
NamesUnreadableFiles ==
    /\ \A name \in DOMAIN FileLabel :
           Unreadable(RequestedDir[name]) => ~validation.ok /\ ErrorAbout(FileLabel[name])
    /\ (pc = "validated_fit" /\ SupportedFrequency /\ Unreadable(RequestedFit))
           => ~validation.ok /\ ErrorAbout(call.employee.pay_frequency)

\* C17: validate_tax_year_data and validate_fit_tables return a
\* ValidationResult for every state of the tax-table storage and never
\* raise; when metadata.json, rates.json, validation.json or the frequency's
\* FIT file is missing or not valid JSON, the result has ok=false and an
\* error naming that file.
C17_NeverRaises ==
    ValidatorEnded => (raised = "" /\ NamesUnreadableFiles)

\* C17, for the calls that return: the unreadable files are reported
C17_ReportsUnreadableFiles ==
    ValidatorReturned => NamesUnreadableFiles

\* the thresholds of a filing status's table in the FIT file
ActualThresholds(status) ==
    IF status \in RequestedFit.with_brackets
    THEN Thresholds(FitFile(RequestedFit.origin, call.employee.pay_frequency)[status].brackets, 1)
    ELSE <<>>

ActualDeduction(status) ==
    IF status \in RequestedFit.with_standard_deduction
    THEN FitFile(RequestedFit.origin, call.employee.pay_frequency)[status].standard_deduction
    ELSE None

\* validation.json and the FIT file are objects, the FIT file has a table
\* for the status, and validation.json records for it another standard
\* deduction than the table's
DeductionDiffers(status) ==
    /\ RequestedDir.validation.standard_deduction[status] # None
    /\ RequestedDir.validation.standard_deduction[status] # ActualDeduction(status)

\* one of the first three recorded thresholds differs from the table's
ThresholdDiffers(status) ==
    LET expected == RequestedDir.validation.bracket_thresholds[status]
        actual == ActualThresholds(status)
    IN  \E i \in 1..Min(3, Len(expected)) : i <= Len(actual) /\ expected[i] # actual[i]

\* one of the first three recorded thresholds has no counterpart in the table
ThresholdWithoutCounterpart(status) ==
    LET expected == RequestedDir.validation.bracket_thresholds[status]
    IN  \E i \in 1..Min(3, Len(expected)) : i > Len(ActualThresholds(status))

Comparable(status) ==
    /\ pc = "validated_fit"
    /\ SupportedFrequency
    /\ RequestedDir.validation.state = "object"
    /\ RequestedFit.state = "object"
    /\ status \in RequestedFit.statuses

\* C18: validate_fit_tables returns ok=false with an error whenever, for
\* some filing status, the standard deduction recorded in validation.json
\* differs from the FIT table's, or one of the first three recorded bracket
\* thresholds differs from, or has no counterpart in, the table's thresholds.
C18_MismatchIsError ==
    \A status \in FILING_STATUS_KEYS :
        (Comparable(status)
             /\ (DeductionDiffers(status) \/ ThresholdDiffers(status)
                     \/ ThresholdWithoutCounterpart(status)))
            => raised = "" /\ ~validation.ok /\ ErrorAbout(status)

\* C18, for the calls that return and the values that have a counterpart
C18_DifferenceIsError ==
    \A status \in FILING_STATUS_KEYS :
        (ValidatorReturned /\ Comparable(status)
             /\ (DeductionDiffers(status) \/ ThresholdDiffers(status)))
            => ~validation.ok /\ ErrorAbout(status)

DeclaresOtherYear ==
    /\ pc = "validated_year"
    /\ RequestedDir.metadata.state = "object"
    /\ RequestedDir.metadata.tax_year \notin {None, call.year}

\* C19: validate_tax_year_data(year) returns ok=false with a 'tax_year
\* mismatch' error whenever metadata.json declares a tax_year different
\* from the requested year.
C19_TaxYearMismatch ==
    DeclaresOtherYear
        => /\ raised = ""
           /\ ~validation.ok
           /\ ErrorSaying("metadata.json tax_year mismatch")

\* C19, for the calls that return
C19_MismatchWhenReturned ==
    (DeclaresOtherYear /\ raised = "")
        => ~validation.ok /\ ErrorSaying("metadata.json tax_year mismatch")

FitFileMissing == \E f \in PayFrequencies : RequestedDir.fit[f].state = "missing"

\* C20: validate_tax_year_data(year), and validate_fit_tables(year, f) for
\* any frequency f, return ok=false when the percentage_method.json of any
\* one of the five supported pay frequencies is missing for that year.
C20_EveryFitFileRequired ==
    (ValidatorEnded /\ FitFileMissing) => (raised = "" /\ ~validation.ok)

\* C20, for the calls that return
C20_RequiredWhenReturned ==
    (ValidatorReturned /\ FitFileMissing)
        => /\ ~validation.ok
           /\ \A f \in PayFrequencies :
                  RequestedDir.fit[f].state = "missing" => ErrorAbout(f)

\* the requested year's files are all there and as published for that year
YearConsistent ==
    /\ call.year \in TaxYears
    /\ RequestedDir = InstalledDir(call.year)
    /\ SupportedFrequency

\* metadata.json is an object without a tax_year field
LacksTaxYear ==
    /\ RequestedDir.metadata.state = "object"
    /\ RequestedDir.metadata.tax_year = None

\* C21: in every ValidationResult returned by validate_tax_year_data or
\* validate_fit_tables, ok is false exactly when errors is non-empty, and a
\* year whose files are all present and mutually consistent validates with
\* ok=true and no errors.
C21_OkIffNoErrors ==
    ValidatorReturned
        => /\ validation.ok <=> (validation.errors = <<>>)
           /\ YearConsistent => (validation.ok /\ validation.errors = <<>>)

\* C21, but for a metadata.json without tax_year: errors imply ok=false, and
\* ok=false comes with an error unless metadata.json lacks its tax_year
C21_OkIffNoErrorsButTaxYear ==
    ValidatorReturned
        => /\ (validation.errors # <<>>) => ~validation.ok
           /\ (~validation.ok /\ validation.errors = <<>>)
                  => (LacksTaxYear /\ validation.warnings # <<>>)
           /\ YearConsistent => (validation.ok /\ validation.errors = <<>>)

\* a returned result with ok=false, a warning and no error
C21_Witness ==
    /\ ValidatorReturned
    /\ ~validation.ok
    /\ validation.errors = <<>>
    /\ validation.warnings # <<>>

----------------------------------------------------------------------------
(* The validator against the loader *)

\* load_tax_year_data would raise on the files the call ran against
LoadRejects == load_error(call.year, call.employee.pay_frequency) # ""

\* C27: whenever validate_fit_tables(year, f) returns ok=true,
\* load_tax_year_data(year, f) succeeds on the same files.
C27_ValidatedLoads ==
    (pc = "validated_fit" /\ raised = "" /\ validation.ok) => ~LoadRejects

\* validate_fit_tables returned ok=true for a year whose rates.json is an
\* object that has no "suta" entry
C27_Witness ==
    /\ pc = "validated_fit"
    /\ raised = ""
    /\ validation.ok
    /\ RequestedDir.rates.state = "object"
    /\ "suta" \notin RequestedDir.rates.keys
    /\ load_error(call.year, call.employee.pay_frequency) = "TaxConfigError"

----------------------------------------------------------------------------
(* The calculation against tables the loader accepts *)

\* C28: for every tax-table set that load_tax_year_data accepts,
\* calculate_monthly_payroll with a supported pay frequency and filing
\* status returns a result; a failure caused by tax-table content surfaces
\* as TaxConfigError, never as another exception type.
C28_AcceptedTablesCalculate ==
    (CalcEnded /\ ~UnsupportedArguments)
        => /\ ~LoadRejects => pc = "returned"
           /\ pc = "raised" => raised = "TaxConfigError"

\* the loader accepts the tables, a supported call raises KeyError on an
\* entry rates.json is without
C28_Witness ==
    /\ pc = "raised"
    /\ ~UnsupportedArguments
    /\ ~LoadRejects
    /\ raised = "KeyError"
    /\ <<"additional_threshold", call.employee.filing_status>> \in RequestedDir.rates.without

\* C28, for the tables that lack nothing the call reads: on tables the
\* loader accepts, whose rates.json has every entry the call reads and whose
\* metadata.json is an object, a supported call returns
C28_CompleteTablesCalculate ==
    (CalcEnded /\ ~UnsupportedArguments /\ ~LoadRejects
         /\ RequestedDir.rates.without \cap EntriesRead(call.employee.filing_status) = {}
         /\ RequestedDir.metadata.state = "object")
        => pc = "returned" /\ raised = ""

----------------------------------------------------------------------------
(* Properties of parse_rate_to_decimal *)

\* the argument is a negative number, decimal string or percent string
NegativeArgument == call.body = "decimal" /\ call.raw < 0

RateEnded == pc \in {"parse_raised", "parsed", "refused", "stored"}

\* C30: parse_rate_to_decimal never returns a negative rate: every negative
\* argument, a number, a decimal string or a percent string, is rejected with
\* ValueError, and the fl_suta_rate a company is stored with is >= 0.
C30_NeverNegative ==
    /\ pc = "parsed" => result.rate >= 0
    /\ pc = "stored" => result.fl_suta_rate >= 0
    /\ (RateEnded /\ NegativeArgument) => pc \in {"parse_raised", "refused"}
    /\ (pc = "parse_raised" /\ NegativeArgument) => raised = "ValueError"

\* a company stored with a negative rate
C30_Witness ==
    /\ pc = "stored"
    /\ call.pct_suffix
    /\ call.raw < 0
    /\ result.fl_suta_rate < 0

\* C30, for the arguments without a '%' suffix: a negative number or decimal
\* string is rejected with ValueError, and what is returned or stored for a
\* number or a decimal string is >= 0
C30_NeverNegativeButPercent ==
    ~call.pct_suffix
        => /\ pc = "parsed" => result.rate >= 0
           /\ pc = "stored" => result.fl_suta_rate >= 0
           /\ (RateEnded /\ NegativeArgument) => pc \in {"parse_raised", "refused"}
           /\ (pc = "parse_raised" /\ NegativeArgument) => raised = "ValueError"

----------------------------------------------------------------------------
(* Properties of the ledger under saves in any order *)

\* C25: after any sequence of upsert_payroll and delete_payroll requests for
\* one employee and year, the sum of suta_taxable_wages over the employee's
\* stored records of the year never exceeds the SUTA wage base, and likewise
\* futa_taxable_wages and ss_taxable_wages never exceed their wage bases.
C25_WithinBaseInAnyOrder ==
    \A e \in EmployeeIds, y \in TaxYears :
        LET rows == RowsOf(e, y)
            rates == Rates(y)
        IN  /\ SumOf("suta_taxable_wages", rows) <= rates.suta.wage_base
            /\ SumOf("futa_taxable_wages", rows) <= rates.futa.wage_base
            /\ SumOf("ss_taxable_wages", rows) <= rates.social_security.wage_base

\* an earlier month was saved after a later one, and the two records
\* together tax more SUTA wages than the wage base
C25_Witness ==
    /\ ~in_order
    /\ \E e \in EmployeeIds, y \in TaxYears :
           /\ \E r1, r2 \in RowsOf(e, y) : r1.month < r2.month /\ r1.id > r2.id
           /\ SumOf("suta_taxable_wages", RowsOf(e, y)) > Rates(y).suta.wage_base

\* the rows stored before a step for the company, employee and year of row r
\* with a month earlier than r's
EarlierRows(r) ==
    {x \in payrolls :
        /\ x.company_id = r.company_id
        /\ x.employee_id = r.employee_id
        /\ x.year = r.year
        /\ x.month < r.month}

\* C23: in upsert_payroll for employee e, year y and month m, each of the
\* four YTD accumulators passed to calculate_monthly_payroll is the sum of
\* the corresponding trace step over exactly the records stored for
\* (company, e, y) with month < m: every record a step writes carries, as
\* its YTD inputs, those sums over the rows stored before the step.
C23_YtdOfEarlierMonths ==
    [][\A r \in payrolls' \ payrolls :
           LET ytd == r.calculation_trace.inputs.ytd
           IN  /\ ytd.ss_wages = SumOf("ss_taxable_wages", EarlierRows(r))
               /\ ytd.medicare_wages = SumOf("medicare_taxable_wages", EarlierRows(r))
               /\ ytd.futa_wages = SumOf("futa_taxable_wages", EarlierRows(r))
               /\ ytd.suta_wages = SumOf("suta_taxable_wages", EarlierRows(r))]_vars

\* a month saved before an earlier month and re-saved after it: the later
\* record carries the earlier month's wages and nothing of its own, the
\* earlier record carries nothing of the later month
C23_Witness ==
    \E r1, r2 \in payrolls :
        /\ r1.employee_id = r2.employee_id
        /\ r1.year = r2.year
        /\ r1.month < r2.month
        /\ r1.id > r2.id
        /\ trace_wages(r1, "medicare_taxable_wages") > 0
        /\ r2.calculation_trace.inputs.ytd.medicare_wages
               = trace_wages(r1, "medicare_taxable_wages")
        /\ r1.calculation_trace.inputs.ytd.medicare_wages = 0

\* the additional_threshold of an employee's filing status
ThresholdOf(e, y) == Rates(y).medicare.additional_threshold[Employee(e).filing_status]

Served(kind) ==
    /\ pc = "served"
    /\ call.kind = kind

\* the stored rows other than the one with this id that hold the period
\* the upsert request asks for
Colliding(req, rows) ==
    {r \in rows :
        /\ r.id # req.record_id
        /\ r.company_id = req.company_id
        /\ r.employee_id = req.employee_id
        /\ r.year = CalcYear(req.year, req.company_id)
        /\ r.month = req.month}

\* the request names a stored record of its company and an employee of it
NamesRecord(req, rows) ==
    /\ req.kind = "upsert_payroll"
    /\ req.record_id # 0
    /\ InScope(req.company_id, req.employee_id)
    /\ \E r \in rows : r.id = req.record_id /\ r.company_id = req.company_id

\* C29: an upsert_payroll request that names a record_id (a stored record
\* of the current company) and whose (employee, year, month) is held by a
\* different stored record is answered "Duplicate payroll period for
\* employee" and leaves every stored record, the named one included, as it
\* was before the request.
C29_CollisionRejected ==
    [][(/\ pc' = "served"
        /\ NamesRecord(call', payrolls)
        /\ Colliding(call', payrolls) # {})
       => /\ result'.message = "Duplicate payroll period for employee"
          /\ payrolls' = payrolls]_vars

\* month 1 and month 2 of an employee are stored; the request asked to move
\* one of the two records onto the other's month and both are as they were
C29_Witness ==
    /\ Served("upsert_payroll")
    /\ NamesRecord(call, payrolls)
    /\ Colliding(call, payrolls) # {}
    /\ \E r \in payrolls : r.id = call.record_id /\ r.month # call.month
    /\ result.message = "Duplicate payroll period for employee"

\* the rows of the companies other than company_id
RowsOfOthers(company_id, rows) == {r \in rows : r.company_id # company_id}

\* the employees of the companies other than company_id
EmployeesOfOthers(company_id, ids) ==
    {e \in ids : Employee(e).company_id # company_id}

\* the request reaches for a row of a company other than its current one
CrossCompany(req, rows, ids) ==
    \/ /\ req.kind \in {"upsert_payroll", "delete_employee"}
       /\ req.employee_id \in EmployeesOfOthers(req.company_id, ids)
    \/ /\ req.kind \in {"upsert_payroll", "delete_payroll"}
       /\ \E r \in RowsOfOthers(req.company_id, rows) : r.id = req.record_id

\* the messages of the requests that were carried out
Successes ==
    {"Payroll created", "Payroll updated", "Payroll deleted", "Employee deleted"}

\* every stored payroll row is a row of its employee's company
RowsMatchEmployees ==
    \A r \in payrolls :
        /\ r.employee_id \in employees
        /\ r.company_id = Employee(r.employee_id).company_id

OnePerPeriod ==
    \A r1, r2 \in payrolls :
        (\/ r1.id = r2.id
         \/ /\ r1.company_id = r2.company_id
            /\ r1.employee_id = r2.employee_id
            /\ r1.year = r2.year
            /\ r1.month = r2.month) => r1 = r2

\* the stored rows that hold the period the upsert request asks for
PeriodRows(req, rows) ==
    {r \in rows :
        /\ r.company_id = req.company_id
        /\ r.employee_id = req.employee_id
        /\ r.year = CalcYear(req.year, req.company_id)
        /\ r.month = req.month}

\* the row a request saves, from the tables as they are when it reads them
RowOf(req, id) ==
    SavedRow(id, req.company_id, req.employee_id,
             CalcYear(req.year, req.company_id), req.month, 0, 0, 0,
             calculate_monthly_payroll(
                 UpsertCall(req.company_id, req.employee_id,
                            CalcYear(req.year, req.company_id), req.month, 0, 0, 0)))

\* C22: after any sequence or interleaving of upsert_payroll requests,
\* with or without a record_id, there is at most one MonthlyPayroll record
\* per (company, employee, year, month); a save of a period that already
\* has a record adds no second one, and (the request not overtaken between
\* its reads and its commit) the period's record is that record carrying
\* the new inputs and result.
C22_OnePerPeriod ==
    /\ []OnePerPeriod
    /\ [][(/\ pc' = "served"
           /\ result'.message \in {"Payroll created", "Payroll updated"}
           /\ PeriodRows(call', payrolls) # {})
          => /\ Cardinality(payrolls') = Cardinality(payrolls)
             /\ {r.id : r \in payrolls'} = {r.id : r \in payrolls}
             /\ pc = "begun"
                    => PeriodRows(call', payrolls')
                           = {RowOf(call', r.id) : r \in PeriodRows(call', payrolls)}]_vars

\* two requests created the same new period at the same time: the one that
\* committed second was refused and the period has the one record
C22_Witness ==
    /\ Served("upsert_payroll")
    /\ call.record_id = 0
    /\ result.overtaken
    /\ locals.loaded = {}
    /\ result.message = "Duplicate payroll period for employee"
    /\ Cardinality(PeriodRows(call, payrolls)) = 1

====
